---- MODULE Spec2Model ----
(***************************************************************************)
(* market-nova: the attention-aggregation engine of src/src/alt/attention.py *)
(* (TTL cache, six provider adapters, per-source 1..100 scoring) and the    *)
(* wide pivot of src/run_once.py, as a state machine.                       *)
(*                                                                          *)
(* Numbers.  Every float of a row (value, change_pct) is held as an integer *)
(* number of hundredths (Scale), the finest resolution the adapters round   *)
(* to (round(.., 2) and round(.., 1)); score_100 is a plain integer.        *)
(* Quotients are rounded half-to-even on the exact rational, as Python's    *)
(* round and numpy's rint do on a value that is exactly representable.      *)
(*                                                                          *)
(* Time.  time.time() is an integer clock `now`; a call reads the clock     *)
(* once (it is instantaneous) and time passes between calls (Tick).         *)
(*                                                                          *)
(* Cache files.  cache[k] is the content of the file of key k.  A file the  *)
(* program wrote has kind "ok"; the other kinds are the files an earlier    *)
(* crash, another program or a disk fault can leave behind.  The cache      *)
(* directory exists (line 37) and the payloads are JSON-serialisable, so    *)
(* the write of _save_cache succeeds.                                       *)
(***************************************************************************)
EXTENDS Integers, Sequences, FiniteSets, TLC

\* ------------------------------------------------------------------ bounds
MaxTime == 1       \* clock ticks after the start of the run
MaxTtl == 1        \* largest ttl a caller passes
MaxCalls == 2      \* calls per run
MaxCount == 1      \* largest count a provider reports

\* ------------------------------------------------------- program constants
MaxKeywords == 10
WikiCap == 30
LookbackDays == 7
Scale == 100

\* ----------------------------------------------------------------- helpers
Abs(x) == IF x < 0 THEN -x ELSE x

Min2(a, b) == IF a <= b THEN a ELSE b

Range(s) == {s[i] : i \in 1..Len(s)}

Prefix(s, n) == SubSeq(s, 1, Min2(Len(s), n))

RECURSIVE SumSeq(_)
SumSeq(s) == IF s = <<>> THEN 0 ELSE s[1] + SumSeq(Tail(s))

\* the quotient cut off instead of rounded
Truncate(n, d) == n \div d

\* n/d rounded to the nearest integer, ties to the even one (d > 0)
RoundHalfEven(n, d) ==
    LET q == n \div d
        r == n - q * d
    IN  IF 2 * r < d THEN q
        ELSE IF 2 * r > d THEN q + 1
        ELSE IF q % 2 = 0 THEN q ELSE q + 1

\* round(num/den * 100.0, 1), in hundredths
Pct1(num, den) == 10 * RoundHalfEven(1000 * num, den)

\* ----------------------------------------------------------------- tickers
\* the ticker universe of a run, as written in the configuration; a call
\* passes a sub-list of it
Universe == <<"A", "b">>

Upper(t) == IF t = "b" THEN "B" ELSE t

UpperAll(tickers) == [i \in 1..Len(tickers) |-> Upper(tickers[i])]

SubLists(u) ==
    {s \in UNION {[1..k -> Range(u)] : k \in 0..Len(u)} :
        \A i, j \in 1..Len(s) : i < j =>
            \E m, n \in 1..Len(u) : m < n /\ u[m] = s[i] /\ u[n] = s[j]}

TickerLists == SubLists(Universe)

\* ------------------------------------------------------------------- cache
Libs == {"pytrends", "feedparser", "requests", "praw"}

Sources == {"trends", "reddit_rss", "reddit_api", "stocktwits", "gdelt", "wiki"}

ListSources == {"trends", "reddit_rss", "reddit_api"}

Keys == Sources \X ((TickerLists \cup {UpperAll(l) : l \in TickerLists}) \ {<<>>})

Ttls == 0..MaxTtl

\* seconds since 1970: larger than any ttl a caller passes
Epoch == MaxTtl + 1

NoFile == [kind |-> "none", ts |-> 0, payload |-> <<>>]

EmptyCache == [k \in Keys |-> NoFile]

None == [some |-> FALSE, scalar |-> FALSE, payload |-> <<>>]

\* the window open at its end: an entry of age ttl is a miss
LoadCacheStrict(c, t, key, ttl) ==
    LET f == c[key]
        ts == IF f.kind = "nots" THEN 0 ELSE f.ts
    IN  IF f.kind \in {"none", "garbled", "notdict", "badts"} THEN None
        ELSE IF t - ts < ttl
             THEN IF f.kind = "nopayload" THEN None
                  ELSE [some |-> TRUE, scalar |-> f.kind = "scalar", payload |-> f.payload]
             ELSE None

\* a missing "_ts" read as the present time
LoadCacheNoTs(c, t, key, ttl) ==
    LET f == c[key]
        ts == IF f.kind = "nots" THEN t ELSE f.ts
    IN  IF f.kind \in {"none", "garbled", "notdict", "badts"} THEN None
        ELSE IF t - ts <= ttl
             THEN IF f.kind = "nopayload" THEN None
                  ELSE [some |-> TRUE, scalar |-> f.kind = "scalar", payload |-> f.payload]
             ELSE None

\* _load_cache: the payload of a file that parses and is fresh, else None.
\*   "none"       no file                      -> None (line 46)
\*   "garbled"    not JSON / unreadable        -> exception -> None
\*   "notdict"    JSON, but not an object      -> blob.get raises -> None
\*   "badts"      "_ts" is not a number        -> the subtraction raises -> None
\*   "nots"       no "_ts": blob.get("_ts", 0) -> age is the whole clock
\*   "nopayload"  no "payload": blob.get("payload") is None
\*   "scalar"     payload is a bare number or string
LoadCache(c, t, key, ttl) ==
    LET f == c[key]
        ts == IF f.kind = "nots" THEN 0 ELSE f.ts
    IN  IF f.kind \in {"none", "garbled", "notdict", "badts"} THEN None
        ELSE IF t - ts <= ttl
             THEN IF f.kind = "nopayload" THEN None
                  ELSE [some |-> TRUE, scalar |-> f.kind = "scalar", payload |-> f.payload]
             ELSE None

\* _save_cache: {"_ts": time.time(), "payload": payload}.  The payload is a
\* list of rows (or one row) of strings, ints and floats, which json.dump and
\* json.load give back unchanged.
SaveCache(c, t, key, payload) ==
    [c EXCEPT ![key] = [kind |-> "ok", ts |-> t, payload |-> payload]]

\* ---------------------------------------------------------------- adapters
\* What an adapter call returns and does: the rows of its DataFrame (or that
\* it raised), the cache it leaves, the remote requests it issued (for which
\* ticker, and whether the provider answered) and the cache reads it made
\* (of which key, with which ttl, the kind of file found, the result).
Ret(raised, rows, c, reqs, loads) ==
    [raised |-> raised, rows |-> rows, cache |-> c, reqs |-> reqs, loads |-> loads]

Row(ticker, source, value, change_pct) ==
    [ticker |-> ticker, source |-> source, value |-> value, change_pct |-> change_pct]

Load(c, key, ttl, ret) == [key |-> key, ttl |-> ttl, file |-> c[key].kind, ret |-> ret]

Req(src, tk, ok) == [source |-> src, ticker |-> tk, ok |-> ok]

\* the cache never consulted
ListCachedNoHit(src, c, t, keyarg, ttl, force, rows, oks) ==
    Ret(FALSE, rows, SaveCache(c, t, <<src, keyarg>>, rows),
        {Req(src, keyarg[i], oks[i]) : i \in 1..Len(keyarg)},
        IF force THEN {}
        ELSE {Load(c, <<src, keyarg>>, ttl, LoadCache(c, t, <<src, keyarg>>, ttl))})

\* A list-keyed adapter after its argument checks (lines 77-81 and 103-105,
\* 113-117 and 151-153, 169-173 and 199-201): one cache entry for the whole
\* ticker list; rows is what the remote fetch yields, oks[i] whether the
\* provider answered for the i-th ticker.  pd.DataFrame(cached) raises on a
\* payload that is a bare number or string.
ListCached(src, c, t, keyarg, ttl, force, rows, oks) ==
    LET key == <<src, keyarg>>
        cached == LoadCache(c, t, key, ttl)
        loads == IF force THEN {} ELSE {Load(c, key, ttl, cached)}
    IN  IF ~force /\ cached.some
        THEN IF cached.scalar
             THEN Ret(TRUE, <<>>, c, {}, loads)
             ELSE Ret(FALSE, cached.payload, c, {}, loads)
        ELSE Ret(FALSE, rows, SaveCache(c, t, key, rows),
                 {Req(src, keyarg[i], oks[i]) : i \in 1..Len(keyarg)}, loads)

\* get_trends, lines 83-101: one batched request; resp.raise is any failure
\* of it, resp.series[t] the samples of ticker t's column (<<>>: no column).
RECURSIVE TrendRows(_, _, _)
TrendRows(tickers, resp, i) ==
    IF resp.raise \/ i > Len(tickers) THEN <<>>
    ELSE LET s == resp.series[tickers[i]]
             first == s[1]
             last == s[Len(s)]
             chg == IF first > 0 THEN Pct1(last - first, first) ELSE 0
             row == Row(Upper(tickers[i]), "trends",
                        RoundHalfEven(Scale * SumSeq(s), Len(s)), chg)
         IN  IF s = <<>> THEN TrendRows(tickers, resp, i + 1)
             ELSE <<row>> \o TrendRows(tickers, resp, i + 1)

get_trends(c, t, lib, tickers, ttl, force, resp) ==
    IF ~lib \/ tickers = <<>> THEN Ret(FALSE, <<>>, c, {}, {})
    ELSE ListCached("trends", c, t, Prefix(tickers, MaxKeywords), ttl, force,
                    TrendRows(Prefix(tickers, MaxKeywords), resp, 1),
                    [i \in 1..Len(Prefix(tickers, MaxKeywords)) |-> ~resp.raise])

\* get_reddit_rss, lines 123-149.  resp[t] is the pair of feeds of ticker t
\* (the symbol-prefixed query, then the plain one); a feed is
\* [raise, entries], an entry [link, age]: age is the age of its
\* published_parsed stamp in days, NoStamp when the entry has none.
NoStamp == 0 - 1

FeedEntries(feeds) ==
    (IF feeds[1].raise THEN <<>> ELSE feeds[1].entries)
        \o (IF feeds[2].raise THEN <<>> ELSE feeds[2].entries)

\* the loop without the set of links seen
RECURSIVE RssCountAll(_, _, _, _, _)
RssCountAll(es, i, seen, hits_24h, hits_prior) ==
    IF i > Len(es) THEN <<hits_24h, hits_prior>>
    ELSE LET e == es[i] IN
         IF e.age = NoStamp THEN RssCountAll(es, i + 1, seen, hits_24h, hits_prior)
         ELSE IF e.age <= 1 THEN RssCountAll(es, i + 1, seen, hits_24h + 1, hits_prior)
         ELSE IF e.age <= LookbackDays
              THEN RssCountAll(es, i + 1, seen, hits_24h, hits_prior + 1)
         ELSE RssCountAll(es, i + 1, seen, hits_24h, hits_prior)

\* the loop of lines 133-145 over the entries of both feeds: <<hits_24h, hits_prior>>
RECURSIVE RssCount(_, _, _, _, _)
RssCount(es, i, seen, hits_24h, hits_prior) ==
    IF i > Len(es) THEN <<hits_24h, hits_prior>>
    ELSE LET e == es[i] IN
         IF e.link \in seen THEN RssCount(es, i + 1, seen, hits_24h, hits_prior)
         ELSE IF e.age = NoStamp
              THEN RssCount(es, i + 1, seen \cup {e.link}, hits_24h, hits_prior)
         ELSE IF e.age <= 1
              THEN RssCount(es, i + 1, seen \cup {e.link}, hits_24h + 1, hits_prior)
         ELSE IF e.age <= LookbackDays
              THEN RssCount(es, i + 1, seen \cup {e.link}, hits_24h, hits_prior + 1)
         ELSE RssCount(es, i + 1, seen \cup {e.link}, hits_24h, hits_prior)

\* lines 146-149: avg_prior = hits_prior / max(1, lookback_days - 1)
RssRow(tk, feeds) ==
    LET hits == RssCount(FeedEntries(feeds), 1, {}, 0, 0)
        days == IF LookbackDays - 1 > 1 THEN LookbackDays - 1 ELSE 1
        chg == IF hits[2] > 0 THEN Pct1(hits[1] * days - hits[2], hits[2])
               ELSE IF hits[1] > 0 THEN 100 * Scale ELSE 0
    IN  Row(Upper(tk), "reddit_rss", hits[1] * Scale, chg)

get_reddit_rss(c, t, lib, tickers, ttl, force, resp) ==
    IF ~lib \/ tickers = <<>> THEN Ret(FALSE, <<>>, c, {}, {})
    ELSE ListCached("reddit_rss", c, t, tickers, ttl, force,
                    [i \in 1..Len(tickers) |-> RssRow(tickers[i], resp[tickers[i]])],
                    [i \in 1..Len(tickers) |->
                        ~resp[tickers[i]][1].raise /\ ~resp[tickers[i]][2].raise])

\* get_reddit_api, lines 163-201.  cfg.keys are the keys of the [reddit]
\* table, cfg.valid whether praw.Reddit(...) accepts them; resp[t] is the
\* number of posts counted for ticker t, Fail when the search raised.
CredKeys == {"client_id", "client_secret", "user_agent"}

Fail == 0 - 1

Count(r) == IF r = Fail THEN 0 ELSE r

ApiRow(tk, r) == Row(Upper(tk), "reddit_api", Count(r) * Scale, Count(r) * Scale)

\* the adapter without the check of the credentials
RedditApiUnchecked(c, t, lib, tickers, cfg, ttl, force, resp) ==
    IF ~lib \/ tickers = <<>> THEN Ret(FALSE, <<>>, c, {}, {})
    ELSE ListCached("reddit_api", c, t, tickers, ttl, force,
                    [i \in 1..Len(tickers) |-> ApiRow(tickers[i], resp[tickers[i]])],
                    [i \in 1..Len(tickers) |-> resp[tickers[i]] # Fail])

get_reddit_api(c, t, lib, tickers, cfg, ttl, force, resp) ==
    IF ~lib \/ tickers = <<>> THEN Ret(FALSE, <<>>, c, {}, {})
    ELSE IF ~(CredKeys \subseteq cfg.keys) THEN Ret(FALSE, <<>>, c, {}, {})
    ELSE LET key == <<"reddit_api", tickers>>
             cached == LoadCache(c, t, key, ttl)
             loads == IF force THEN {} ELSE {Load(c, key, ttl, cached)}
         IN  IF (force \/ ~cached.some) /\ ~cfg.valid
             THEN Ret(FALSE, <<>>, c, {}, loads)
             ELSE ListCached("reddit_api", c, t, tickers, ttl, force,
                             [i \in 1..Len(tickers) |-> ApiRow(tickers[i], resp[tickers[i]])],
                             [i \in 1..Len(tickers) |-> resp[tickers[i]] # Fail])

\* The per-ticker adapters (get_stocktwits, get_gdelt, get_wiki): one cache
\* entry and one fetch per ticker.  The payload of a fetch:
\*   stocktwits, gdelt (lines 215-223, 242-253): resp is the number of
\*     messages / articles, Fail for an exception or a non-OK status;
\*   wiki (lines 274-296): resp is [kind, vals]: "raise" (an exception in
\*     either request), "nohits" (the search finds no page), "notok" (the
\*     pageview request is not OK), "views" with the daily views vals.
WikiPayload(tk, r) ==
    LET vals == r.vals
        first == vals[1]
        last == vals[Len(vals)]
        chg == IF first > 0 THEN Pct1(last - first, first) ELSE 0
    IN  IF r.kind = "views" /\ vals # <<>>
        THEN Row(Upper(tk), "wiki", SumSeq(vals) * Scale, chg)
        ELSE Row(Upper(tk), "wiki", 0, 0)

\* the count reported as value only, the change left at 0
PayloadNoChange(src, tk, r) ==
    IF src = "wiki" THEN WikiPayload(tk, r)
    ELSE Row(Upper(tk), src, Count(r) * Scale, 0)

Payload(src, tk, r) ==
    IF src = "wiki" THEN WikiPayload(tk, r)
    ELSE Row(Upper(tk), src, Count(r) * Scale, Count(r) * Scale)

\* whether the provider answered the fetch of a ticker
Answered(src, r) == IF src = "wiki" THEN r.kind \in {"nohits", "views"} ELSE r # Fail

\* the loop of lines 209-225 (236-255, 268-298); a cached payload, one row,
\* is held as a one-row list
RECURSIVE TickerLoop(_, _, _, _, _, _, _, _)
TickerLoop(src, t, tickers, ttl, force, resp, i, acc) ==
    IF i > Len(tickers) THEN acc
    ELSE LET tk == tickers[i]
             key == <<src, <<tk>>>>
             cached == LoadCache(acc.cache, t, key, ttl)
             payload == Payload(src, tk, resp[tk])
         IN  IF ~force /\ cached.some
             THEN TickerLoop(src, t, tickers, ttl, force, resp, i + 1,
                      [acc EXCEPT !.rows = @ \o cached.payload,
                                  !.loads = @ \cup {Load(acc.cache, key, ttl, cached)}])
             ELSE TickerLoop(src, t, tickers, ttl, force, resp, i + 1,
                      Ret(FALSE, acc.rows \o <<payload>>,
                          SaveCache(acc.cache, t, key, <<payload>>),
                          acc.reqs \cup {Req(src, tk, Answered(src, resp[tk]))},
                          IF force THEN acc.loads
                          ELSE acc.loads \cup {Load(acc.cache, key, ttl, cached)}))

get_stocktwits(c, t, lib, tickers, ttl, force, resp) ==
    IF ~lib \/ tickers = <<>> THEN Ret(FALSE, <<>>, c, {}, {})
    ELSE TickerLoop("stocktwits", t, tickers, ttl, force, resp, 1, Ret(FALSE, <<>>, c, {}, {}))

get_gdelt(c, t, lib, tickers, ttl, force, resp) ==
    IF ~lib \/ tickers = <<>> THEN Ret(FALSE, <<>>, c, {}, {})
    ELSE TickerLoop("gdelt", t, tickers, ttl, force, resp, 1, Ret(FALSE, <<>>, c, {}, {}))

\* the whole list polled, however long
WikiUncapped(c, t, lib, tickers, ttl, force, resp) ==
    IF ~lib \/ tickers = <<>> THEN Ret(FALSE, <<>>, c, {}, {})
    ELSE TickerLoop("wiki", t, tickers, ttl, force, resp, 1, Ret(FALSE, <<>>, c, {}, {}))

get_wiki(c, t, lib, tickers, ttl, force, resp) ==
    IF ~lib \/ tickers = <<>> THEN Ret(FALSE, <<>>, c, {}, {})
    ELSE TickerLoop("wiki", t, Prefix(tickers, WikiCap), ttl, force, resp, 1,
                    Ret(FALSE, <<>>, c, {}, {}))

\* --------------------------------------------------- aggregate + scale 1-100
\* _minmax_1_100 of the metric at position i of a partition's metrics ms
MinOf(ms) == CHOOSE m \in Range(ms) : \A n \in Range(ms) : m <= n

MaxOf(ms) == CHOOSE m \in Range(ms) : \A n \in Range(ms) : m >= n

Clip(x, lo, hi) == IF x < lo THEN lo ELSE IF x > hi THEN hi ELSE x

\* the scaling with the offset left out
MinmaxNoOffset(ms, i) ==
    IF Cardinality(Range(ms)) <= 1 THEN 50
    ELSE Clip(RoundHalfEven(99 * (ms[i] - MinOf(ms)), MaxOf(ms) - MinOf(ms)), 1, 100)

\* the degenerate partition scored as its minimum
MinmaxNoMid(ms, i) ==
    IF Cardinality(Range(ms)) <= 1 THEN 1
    ELSE Clip(1 + RoundHalfEven(99 * (ms[i] - MinOf(ms)), MaxOf(ms) - MinOf(ms)), 1, 100)

_minmax_1_100(ms, i) ==
    IF Cardinality(Range(ms)) <= 1 THEN 50
    ELSE Clip(1 + RoundHalfEven(99 * (ms[i] - MinOf(ms)), MaxOf(ms) - MinOf(ms)), 1, 100)

\* the positions of the rows of source src, in row order
RECURSIVE Partition(_, _, _)
Partition(rows, src, i) ==
    IF i > Len(rows) THEN <<>>
    ELSE (IF rows[i].source = src THEN <<i>> ELSE <<>>) \o Partition(rows, src, i + 1)

\* the metric chosen row by row
ScoreMetricPerRow(rows, idx) ==
    [k \in 1..Len(idx) |->
        IF rows[idx[k]].change_pct # 0 THEN Abs(rows[idx[k]].change_pct)
        ELSE rows[idx[k]].value]

\* _score_metric of a partition (positions idx of rows): |change_pct| when
\* the absolute changes sum to more than 0, else value
_score_metric(rows, idx) ==
    LET chgs == [k \in 1..Len(idx) |-> Abs(rows[idx[k]].change_pct)]
    IN  IF SumSeq(chgs) > 0 THEN chgs
        ELSE [k \in 1..Len(idx) |-> rows[idx[k]].value]

\* lines 360-371.  groupby("source").apply(_score_metric) yields one Series
\* aligned with long_df when there are two or more sources; with a single
\* source pandas stacks the one result into a one-row DataFrame, and setting
\* it as the column "metric" raises ValueError when it has two or more
\* columns (rows of long_df), and leaves metric NaN (0.0 after fillna) when
\* it has one.
Scored(rows) ==
    LET srcs == {rows[i].source : i \in 1..Len(rows)}
        single == Cardinality(srcs) = 1
        score(i) ==
            LET idx == Partition(rows, rows[i].source, 1)
                ms == IF single THEN [k \in 1..Len(idx) |-> 0] ELSE _score_metric(rows, idx)
                k == CHOOSE j \in 1..Len(idx) : idx[j] = i
            IN  _minmax_1_100(ms, k)
    IN  [raised |-> single /\ Len(rows) >= 2,
         rows |-> IF single /\ Len(rows) >= 2 THEN <<>>
                  ELSE [i \in 1..Len(rows) |->
                           [ticker |-> rows[i].ticker, source |-> rows[i].source,
                            value |-> rows[i].value, change_pct |-> rows[i].change_pct,
                            score_100 |-> score(i)]]]

RECURSIVE Concat(_)
Concat(frames) == IF frames = <<>> THEN <<>> ELSE frames[1] \o Concat(Tail(frames))

\* lines 330-356: a frame is kept unless its adapter raised or it is empty
Kept(r) == ~r.raised /\ r.rows # <<>>

\* aggregate_attention: the six adapters in order, each on the cache the
\* one before left; net holds the response of each provider.
aggregate_attention(c, t, libs, rawtickers, cfg, ttl, force, net) ==
    LET tickers == UpperAll(rawtickers)
        r1 == get_trends(c, t, libs["pytrends"], tickers, ttl, force, net.trends)
        r2 == get_reddit_rss(r1.cache, t, libs["feedparser"], tickers, ttl, force, net.reddit_rss)
        r3 == get_reddit_api(r2.cache, t, libs["praw"], tickers, cfg, ttl, force, net.reddit_api)
        r4 == get_stocktwits(r3.cache, t, libs["requests"], tickers, ttl, force, net.stocktwits)
        r5 == get_gdelt(r4.cache, t, libs["requests"], tickers, ttl, force, net.gdelt)
        r6 == get_wiki(r5.cache, t, libs["requests"], tickers, ttl, force, net.wiki)
        all == <<r1, r2, r3, r4, r5, r6>>
        frames == SelectSeq(all, Kept)
        sc == Scored(Concat([i \in 1..Len(frames) |-> frames[i].rows]))
    IN  [raised |-> sc.raised,
         long |-> sc.rows,
         cache |-> r6.cache,
         reqs |-> UNION {all[i].reqs : i \in 1..6},
         loads |-> UNION {all[i].loads : i \in 1..6},
         rets |-> [trends |-> [raised |-> r1.raised, rows |-> r1.rows],
                   reddit_rss |-> [raised |-> r2.raised, rows |-> r2.rows],
                   reddit_api |-> [raised |-> r3.raised, rows |-> r3.rows],
                   stocktwits |-> [raised |-> r4.raised, rows |-> r4.rows],
                   gdelt |-> [raised |-> r5.raised, rows |-> r5.rows],
                   wiki |-> [raised |-> r6.raised, rows |-> r6.rows]]]

\* the pivot with missing cells left at 0
PivotMissingZero(long) ==
    LET tks == {long[i].ticker : i \in 1..Len(long)}
        srcs == {long[i].source : i \in 1..Len(long)}
        cell(tk, s) ==
            IF \E i \in 1..Len(long) : long[i].ticker = tk /\ long[i].source = s
            THEN long[CHOOSE i \in 1..Len(long) :
                          long[i].ticker = tk /\ long[i].source = s].score_100
            ELSE 0
        RECURSIVE SumCells(_, _)
        SumCells(tk, S) ==
            IF S = {} THEN 0
            ELSE LET s == CHOOSE x \in S : TRUE IN cell(tk, s) + SumCells(tk, S \ {s})
    IN  [tk \in tks |->
            [cells |-> [s \in srcs |-> cell(tk, s)],
             Overall_Attention |-> RoundHalfEven(SumCells(tk, srcs), Cardinality(srcs))]]

\* build_attention, run_once.py lines 104-109: the pivot of score_100 by
\* ticker and source (a ticker has at most one row per source: ticker lists
\* hold no duplicates), missing cells 1, and the rounded row mean.
Pivot(long) ==
    LET tks == {long[i].ticker : i \in 1..Len(long)}
        srcs == {long[i].source : i \in 1..Len(long)}
        cell(tk, s) ==
            IF \E i \in 1..Len(long) : long[i].ticker = tk /\ long[i].source = s
            THEN long[CHOOSE i \in 1..Len(long) :
                          long[i].ticker = tk /\ long[i].source = s].score_100
            ELSE 1
        RECURSIVE SumCells(_, _)
        SumCells(tk, S) ==
            IF S = {} THEN 0
            ELSE LET s == CHOOSE x \in S : TRUE IN cell(tk, s) + SumCells(tk, S \ {s})
    IN  [tk \in tks |->
            [cells |-> [s \in srcs |-> cell(tk, s)],
             Overall_Attention |-> RoundHalfEven(SumCells(tk, srcs), Cardinality(srcs))]]

\* the columns of the long table aggregate_attention returns: line 358 for
\* the empty table, the columns of the adapters' rows and score_100 otherwise
LongColumns(rows) == {"ticker", "source", "value", "change_pct", "score_100"}

\* the columns of the wide table build_attention returns, run_once.py lines
\* 105-109: the sources of the pivot and Overall_Attention for a long table
\* with rows, pd.DataFrame() for an empty one
WideColumns(rows) ==
    IF rows # <<>>
    THEN {rows[i].source : i \in 1..Len(rows)} \cup {"Overall_Attention"}
    ELSE {}

\* ------------------------------------------------------ what providers answer
\* a count: Fail, or the number of messages, articles or posts
CountResps == Fail..MaxCount

\* the two feeds of the reddit search for a ticker with r fresh posts: the
\* plain query repeats the links of the symbol query and adds an older post;
\* both raise when the provider is down
RssOf(r) ==
    IF r = Fail
    THEN <<[raise |-> TRUE, entries |-> <<>>], [raise |-> TRUE, entries |-> <<>>]>>
    ELSE <<[raise |-> FALSE, entries |-> [i \in 1..r |-> [link |-> i, age |-> 0]]],
           [raise |-> FALSE,
            entries |-> [i \in 1..r |-> [link |-> i, age |-> 0]]
                            \o <<[link |-> 0, age |-> 3]>>]>>

TrendSeries == {<<>>, <<0, 1>>} \cup {<<1, n>> : n \in 1..MaxCount}

WikiResps ==
    {[kind |-> k, vals |-> <<>>] : k \in {"raise", "nohits", "notok"}}
        \cup {[kind |-> "views", vals |-> <<1, n>>] : n \in 1..MaxCount}

WikiOf(r) ==
    IF r = Fail THEN [kind |-> "raise", vals |-> <<>>]
    ELSE IF r = 0 THEN [kind |-> "nohits", vals |-> <<>>]
    ELSE [kind |-> "views", vals |-> <<1, r>>]

\* the answers a direct call of adapter src can meet, for the tickers T
Resps(src, T) ==
    IF src = "trends"
    THEN {[raise |-> TRUE, series |-> [t \in T |-> <<>>]]}
            \cup {[raise |-> FALSE, series |-> f] : f \in [T -> TrendSeries]}
    ELSE IF src = "reddit_rss" THEN [T -> {RssOf(r) : r \in CountResps}]
    ELSE IF src = "wiki" THEN [T -> WikiResps]
    ELSE [T -> CountResps]

\* the providers as one call of the aggregator finds them: lv[t] is the
\* activity around ticker t, Fail when the providers cannot be reached for it
NetOf(lv) ==
    [trends |-> [raise |-> \A t \in DOMAIN lv : lv[t] = Fail,
                 series |-> [t \in DOMAIN lv |-> IF lv[t] = Fail THEN <<>> ELSE <<1, 1 + lv[t]>>]],
     reddit_rss |-> [t \in DOMAIN lv |-> RssOf(lv[t])],
     reddit_api |-> lv,
     stocktwits |-> lv,
     gdelt |-> lv,
     wiki |-> [t \in DOMAIN lv |-> WikiOf(lv[t])]]

\* the [reddit] table of config.toml: absent, without client_secret,
\* complete, complete but refused by praw.Reddit
NoCreds == [keys |-> {}, valid |-> TRUE]

PartCreds == [keys |-> {"client_id", "user_agent"}, valid |-> TRUE]

Creds == [keys |-> CredKeys, valid |-> TRUE]

BadCreds == [keys |-> CredKeys, valid |-> FALSE]

\* -------------------------------------------------------------------- state
VARIABLES
    has,      \* HAS_TRENDS, HAS_FEED, HAS_REQ, HAS_PRAW: which imports succeeded
    cfg,      \* the [reddit] table of the configuration the process loaded
    cache,    \* the files of data/.cache
    now,      \* time.time()
    calls,    \* calls made so far
    call,     \* the last call: what was called, with which arguments, when
    rets,     \* what each adapter returned in the last call
    reqs,     \* the remote requests of the last call
    loads,    \* the cache reads of the last call
    long,     \* the long table the last aggregation returned
    wide,     \* the wide table build_attention made of it
    err,      \* the last aggregation raised
    data,     \* the daily bars the price provider returned, by ticker; the
              \* news_df a merge is given; the feeds reddit holds, by ticker
    sentiment,\* the sentiment_df passed to the screener; the x_counts_df a
              \* merge is given
    out,      \* the rows screen or merge_and_score returned
    prep,     \* the rows prep_discovery computed
    batch,    \* where run_once.main stands, and the files of data/ it wrote
    file,     \* the bytes of one file of data/.cache, as the processes that
              \* share the directory find them
    procs,    \* what each process sharing the cache directory is doing
    HEADERS,  \* sec.HEADERS, the request headers the functions of sec.py share
    sec       \* where sec.main stands, and the requests it sent

vars == <<has, cfg, cache, now, calls, call, rets, reqs, loads, long, wide, err,
          data, sentiment, out, prep, batch, file, procs, HEADERS, sec>>

\* no sentiment_df passed (None)
NoSentiment == [given |-> FALSE, rows |-> <<>>]

NotRun == [done |-> FALSE, rows |-> <<>>]

\* no file, no process at work on it
NoBytes == [exists |-> FALSE, content |-> <<>>]

NoProcs == <<>>

\* HEADERS = {} (sec.py line 15), and sec.main not called
NoHeaders == {}

NoSec ==
    [step |-> "none", at |-> 0, tickers |-> <<>>, ua |-> "", mains |-> 0,
     mapping |-> FALSE, sent |-> <<>>]

\* run_once.main has not started
NoBatch == [step |-> "none", halted |-> FALSE, written |-> {}, failed |-> {}, sec |-> FALSE]

\* the screener has not run, nor the batch
Unscreened ==
    /\ data = <<>>
    /\ sentiment = NoSentiment
    /\ out = NotRun
    /\ prep = NotRun
    /\ batch = NoBatch
    /\ file = NoBytes
    /\ procs = NoProcs
    /\ HEADERS = NoHeaders
    /\ sec = NoSec

NoCall ==
    [op |-> "none", tickers |-> <<>>, cfg |-> NoCreds, ttl |-> 0, force |-> FALSE, at |-> 0]

NoRets == [s \in Sources |-> [raised |-> FALSE, rows |-> <<>>]]

\* a file left by an earlier run of the program, one tick before this one
\* started: stocktwits' entry of ticker A
Leftover ==
    get_stocktwits(EmptyCache, Epoch - 1, TRUE, <<"A">>, 0, TRUE,
                   [t \in {"A"} |-> MaxCount]).cache

\* the files of the ticker list <<A>> damaged: every source's, the same way
DamageKinds == {"garbled", "notdict", "badts", "nots", "nopayload", "scalar"}

Damaged(kind) ==
    [k \in Keys |->
        IF k[2] = <<"A">> /\ (kind = "scalar" => k[1] \in ListSources)
        THEN [kind |-> kind, ts |-> IF kind \in {"badts", "nots"} THEN 0 ELSE Epoch,
              payload |-> IF kind \in {"nots", "badts"}
                          THEN <<Row("A", k[1], Scale, Scale)>> ELSE <<>>]
        ELSE NoFile]

Fresh ==
    /\ now = Epoch
    /\ calls = 0
    /\ call = NoCall
    /\ rets = NoRets
    /\ reqs = {}
    /\ loads = {}
    /\ long = <<>>
    /\ wide = Pivot(<<>>)
    /\ err = FALSE
    /\ Unscreened

\* time passes
Tick ==
    /\ now < Epoch + MaxTime
    /\ now' = now + 1
    /\ UNCHANGED <<has, cfg, cache, calls, call, rets, reqs, loads, long, wide, err>>
    /\ UNCHANGED <<data, sentiment, out, prep, batch, file, procs, HEADERS, sec>>

\* ------------------------------------------------- the batch: build_attention
\* A process that imported praw, and any of the other libraries; whether the
\* Reddit-API adapter runs is then decided by the configuration.
Init ==
    /\ has \in {h \in [Libs -> BOOLEAN] : h["praw"]}
    /\ cfg \in {NoCreds, Creds}
    /\ cache \in {EmptyCache, Leftover, Damaged("scalar")}
    /\ Fresh

\* build_attention(tickers, cfg, ttl, force_refresh): aggregate_attention,
\* then the pivot (a raise of aggregate_attention passes through it).  The
\* aggregations of a run pass one ttl (run_once.py line 265).
BuildAttention ==
    /\ calls < MaxCalls
    /\ \E tickers \in TickerLists, force \in BOOLEAN :
       \E lv \in [Range(UpperAll(tickers)) -> CountResps] :
        \E a \in {aggregate_attention(cache, now, has, tickers, cfg, MaxTtl, force, NetOf(lv))} :
            /\ calls' = calls + 1
            /\ call' = [op |-> "build", tickers |-> tickers, cfg |-> cfg, ttl |-> MaxTtl,
                        force |-> force, at |-> now]
            /\ cache' = a.cache
            /\ rets' = a.rets
            /\ reqs' = a.reqs
            /\ loads' = a.loads
            /\ err' = a.raised
            /\ long' = a.long
            /\ wide' = Pivot(a.long)
            /\ UNCHANGED <<has, cfg, now, data, sentiment, out, prep, batch,
                           file, procs, HEADERS, sec>>

Next == BuildAttention \/ Tick

Spec == Init /\ [][Next]_vars

\* ------------------------- runs without the credentials of the Reddit API
\* A process that imported every library, with a [reddit] table that lacks
\* one credential key or all of them.
InitCreds ==
    /\ has = [l \in Libs |-> TRUE]
    /\ cfg \in {NoCreds, PartCreds}
    /\ cache \in {EmptyCache, Leftover, Damaged("scalar")}
    /\ Fresh

SpecCreds == InitCreds /\ [][Next]_vars

\* ------------------------------------------- direct calls of one adapter
\* A run polls one adapter (the adapters share no cache key: every key
\* starts with the name of its source), with any arguments.
InitFetch ==
    /\ has \in {[l \in Libs |-> b] : b \in BOOLEAN}
    /\ cfg = Creds
    /\ cache \in {EmptyCache} \cup {Damaged(k) : k \in DamageKinds}
    /\ Fresh

Called(src, tickers, rcfg, ttl, force, r) ==
    /\ calls < MaxCalls
    /\ call.op \in {"none", src}
    /\ calls' = calls + 1
    /\ call' = [op |-> src, tickers |-> tickers, cfg |-> rcfg, ttl |-> ttl,
                force |-> force, at |-> now]
    /\ cache' = r.cache
    /\ rets' = [NoRets EXCEPT ![src] = [raised |-> r.raised, rows |-> r.rows]]
    /\ reqs' = r.reqs
    /\ loads' = r.loads
    /\ UNCHANGED <<has, cfg, now, long, wide, err, data, sentiment, out, prep, batch,
                   file, procs, HEADERS, sec>>

GetTrends ==
    \E tickers \in TickerLists, ttl \in Ttls, force \in BOOLEAN :
    \E resp \in Resps("trends", Range(tickers)) :
        Called("trends", tickers, cfg, ttl, force,
               get_trends(cache, now, has["pytrends"], tickers, ttl, force, resp))

GetRedditRss ==
    \E tickers \in TickerLists, ttl \in Ttls, force \in BOOLEAN :
    \E resp \in Resps("reddit_rss", Range(tickers)) :
        Called("reddit_rss", tickers, cfg, ttl, force,
               get_reddit_rss(cache, now, has["feedparser"], tickers, ttl, force, resp))

GetRedditApi ==
    \E tickers \in TickerLists, ttl \in Ttls, force \in BOOLEAN :
    \E rcfg \in {NoCreds, Creds, BadCreds}, resp \in Resps("reddit_api", Range(tickers)) :
        Called("reddit_api", tickers, rcfg, ttl, force,
               get_reddit_api(cache, now, has["praw"], tickers, rcfg, ttl, force, resp))

GetStocktwits ==
    \E tickers \in TickerLists, ttl \in Ttls, force \in BOOLEAN :
    \E resp \in Resps("stocktwits", Range(tickers)) :
        Called("stocktwits", tickers, cfg, ttl, force,
               get_stocktwits(cache, now, has["requests"], tickers, ttl, force, resp))

GetGdelt ==
    \E tickers \in TickerLists, ttl \in Ttls, force \in BOOLEAN :
    \E resp \in Resps("gdelt", Range(tickers)) :
        Called("gdelt", tickers, cfg, ttl, force,
               get_gdelt(cache, now, has["requests"], tickers, ttl, force, resp))

GetWiki ==
    \E tickers \in TickerLists, ttl \in Ttls, force \in BOOLEAN :
    \E resp \in Resps("wiki", Range(tickers)) :
        Called("wiki", tickers, cfg, ttl, force,
               get_wiki(cache, now, has["requests"], tickers, ttl, force, resp))

NextFetch ==
    \/ GetTrends
    \/ GetRedditRss
    \/ GetRedditApi
    \/ GetStocktwits
    \/ GetGdelt
    \/ GetWiki
    \/ Tick

SpecFetch == InitFetch /\ [][NextFetch]_vars

\* ------------------------------------------- the scoring of given frames
\* aggregate_attention from line 356 on, applied to the frames its adapters
\* returned: trends with a row for each of three tickers, and wiki with no
\* row or one.
ScoreTickers == <<"A", "B", "C">>

ChangeVals == {0, 25 * Scale, 50 * Scale, 100 * Scale}

TrendFrames ==
    {[i \in 1..3 |-> Row(ScoreTickers[i], "trends", Scale, chg[i])] :
        chg \in [1..3 -> ChangeVals]}

WikiFrames == {<<>>, <<Row("A", "wiki", Scale, 0)>>}

InitScore ==
    /\ has = [l \in Libs |-> TRUE]
    /\ cfg = NoCreds
    /\ cache = EmptyCache
    /\ now = Epoch
    /\ calls = 0
    /\ call = NoCall
    /\ rets \in {[NoRets EXCEPT !["trends"].rows = tf, !["wiki"].rows = wf] :
                    tf \in TrendFrames, wf \in WikiFrames}
    /\ reqs = {}
    /\ loads = {}
    /\ long = <<>>
    /\ wide = Pivot(<<>>)
    /\ err = FALSE
    /\ Unscreened

ScoreFrames ==
    LET all == <<rets["trends"], rets["reddit_rss"], rets["reddit_api"],
                 rets["stocktwits"], rets["gdelt"], rets["wiki"]>>
        frames == SelectSeq(all, Kept)
        sc == Scored(Concat([i \in 1..Len(frames) |-> frames[i].rows]))
    IN  /\ call.op = "none"
        /\ calls < MaxCalls
        /\ calls' = calls + 1
        /\ call' = [NoCall EXCEPT !.op = "score", !.tickers = ScoreTickers, !.at = now]
        /\ err' = sc.raised
        /\ long' = sc.rows
        /\ wide' = Pivot(sc.rows)
        /\ UNCHANGED <<has, cfg, cache, now, rets, reqs, loads, data, sentiment, out, prep, batch,
                       file, procs, HEADERS, sec>>

NextScore == ScoreFrames

SpecScore == InitScore /\ [][NextScore]_vars

\* -------------------------- the scoring of frames with values and changes
\* aggregate_attention from line 356 on, applied to frames whose rows differ
\* in value and in change_pct (falls, no change, rises): three rows of
\* trends and two of wiki.
MetricVals == {Scale, 2 * Scale}

MetricChanges == {0 - Scale, 0, Scale \div 2}

MetricFrames(src, n) ==
    {[i \in 1..n |-> Row(ScoreTickers[i], src, v[i], chg[i])] :
        v \in [1..n -> MetricVals], chg \in [1..n -> MetricChanges]}

InitMetric ==
    /\ has = [l \in Libs |-> TRUE]
    /\ cfg = NoCreds
    /\ cache = EmptyCache
    /\ now = Epoch
    /\ calls = 0
    /\ call = NoCall
    /\ rets \in {[NoRets EXCEPT !["trends"].rows = tf, !["wiki"].rows = wf] :
                    tf \in MetricFrames("trends", 3), wf \in MetricFrames("wiki", 2)}
    /\ reqs = {}
    /\ loads = {}
    /\ long = <<>>
    /\ wide = Pivot(<<>>)
    /\ err = FALSE
    /\ Unscreened

SpecMetric == InitMetric /\ [][NextScore]_vars

\* ----------------------------------- one aggregation, adapter by adapter
\* aggregate_attention, lines 330-354, statement by statement: calls counts
\* the try blocks that have completed, call.op names the adapter that
\* returned last; lines 356-371 and the pivot of build_attention end the cycle.

\* the adapter without its place in the cycle: stocktwits and gdelt swapped
AdapterAtSwapped(k) ==
    <<"trends", "reddit_rss", "reddit_api", "gdelt", "stocktwits", "wiki">>[k]

\* the adapter of the k-th try block
AdapterAt(k) ==
    <<"trends", "reddit_rss", "reddit_api", "stocktwits", "gdelt", "wiki">>[k]

\* the call of adapter src in its try block
Adapter(src, c, t, libs, tickers, rcfg, ttl, force, resp) ==
    IF src = "trends" THEN get_trends(c, t, libs["pytrends"], tickers, ttl, force, resp)
    ELSE IF src = "reddit_rss"
    THEN get_reddit_rss(c, t, libs["feedparser"], tickers, ttl, force, resp)
    ELSE IF src = "reddit_api"
    THEN get_reddit_api(c, t, libs["praw"], tickers, rcfg, ttl, force, resp)
    ELSE IF src = "stocktwits"
    THEN get_stocktwits(c, t, libs["requests"], tickers, ttl, force, resp)
    ELSE IF src = "gdelt" THEN get_gdelt(c, t, libs["requests"], tickers, ttl, force, resp)
    ELSE get_wiki(c, t, libs["requests"], tickers, ttl, force, resp)

\* what a provider answers during the cycle: it is down, or it reports
\* activity for ticker A only
CycleResps(src, T) ==
    {NetOf(lv)[src] : lv \in {[t \in T |-> Fail],
                              [t \in T |-> IF t = "A" THEN MaxCount ELSE 0]}}

CycleLists == {<<"A">>, <<"A", "b">>}

InitCycle ==
    /\ has = [l \in Libs |-> TRUE]
    /\ cfg \in {NoCreds, Creds}
    /\ cache \in {EmptyCache, Leftover}
    /\ now = Epoch
    /\ calls = 0
    /\ call \in {[op |-> "cycle", tickers |-> l, cfg |-> cfg, ttl |-> MaxTtl,
                  force |-> f, at |-> Epoch] : l \in CycleLists, f \in BOOLEAN}
    /\ rets = NoRets
    /\ reqs = {}
    /\ loads = {}
    /\ long = <<>>
    /\ wide = Pivot(<<>>)
    /\ err = FALSE
    /\ Unscreened

\* one try block: the adapter is called and returns
Invoke ==
    /\ call.op # "build"
    /\ calls < 6
    /\ \E resp \in CycleResps(AdapterAt(calls + 1), Range(UpperAll(call.tickers))) :
       \E r \in {Adapter(AdapterAt(calls + 1), cache, now, has, UpperAll(call.tickers),
                         cfg, call.ttl, call.force, resp)} :
            /\ calls' = calls + 1
            /\ call' = [call EXCEPT !.op = AdapterAt(calls + 1)]
            /\ cache' = r.cache
            /\ rets' = [rets EXCEPT ![AdapterAt(calls + 1)] =
                                        [raised |-> r.raised, rows |-> r.rows]]
            /\ reqs' = reqs \cup r.reqs
            /\ loads' = loads \cup r.loads
    /\ UNCHANGED <<has, cfg, now, long, wide, err, data, sentiment, out, prep, batch,
                   file, procs, HEADERS, sec>>

\* lines 356-371 and run_once.py lines 104-109: the kept frames are
\* concatenated in the order they were appended, scored and pivoted
ScoreCycle ==
    /\ call.op # "build"
    /\ calls = 6
    /\ \E sc \in {Scored(Concat([i \in 1..Len(SelectSeq([k \in 1..6 |-> rets[AdapterAt(k)]], Kept))
                                    |-> SelectSeq([k \in 1..6 |-> rets[AdapterAt(k)]], Kept)[i].rows]))} :
            /\ err' = sc.raised
            /\ long' = sc.rows
            /\ wide' = Pivot(sc.rows)
    /\ call' = [call EXCEPT !.op = "build"]
    /\ UNCHANGED <<has, cfg, cache, now, calls, rets, reqs, loads>>
    /\ UNCHANGED <<data, sentiment, out, prep, batch, file, procs, HEADERS, sec>>

NextCycle == Invoke \/ ScoreCycle

SpecCycle == InitCycle /\ [][NextCycle]_vars

\* ------------------------------------------------------------ the screener
\* src/src/discovery/screener.py and src/prep_discovery.py.  Prices and
\* volumes are whole numbers; a float that need not be one (a ratio, a mean)
\* is held exactly as [num, den] with den > 0, and NaN as den = 0.  The
\* 1e-9 added to a denominator (screener.py lines 12 and 35) makes the
\* quotient 0 where the denominator is 0; elsewhere it lowers the quotient
\* by less than a billionth of it, which is left out.  A fraction is kept
\* in lowest terms, so that equal floats are equal records.  Signals of
\* prep_discovery are whole numbers (vol_spike and pct_change in hundredths)
\* or NaN.
NaN == 0 - 1

NaNQ == [num |-> 0, den |-> 0]

RECURSIVE Gcd(_, _)
Gcd(a, b) == IF b = 0 THEN a ELSE Gcd(b, a % b)

\* the fraction n/d (d > 0) in lowest terms
Q(n, d) == [num |-> n \div Gcd(Abs(n), d), den |-> d \div Gcd(Abs(n), d)]

IsNaN(q) == q.den = 0

Bar(o, h, c, v) == [Open |-> o, High |-> h, Close |-> c, Volume |-> v]

\* a date of the download on which the ticker has no bar
NaNBar == Bar(NaN, NaN, NaN, NaN)

MaxOfSeq(s) == CHOOSE m \in Range(s) : \A x \in Range(s) : x <= m

\* fetch_ohlcv: yf.download of the ticker list gives one frame whose index
\* is the union of the tickers' dates; data[t] has a row for every date of
\* the index, NaN where ticker t has no bar.  The bars of every ticker end
\* today, so a ticker with fewer bars lacks the earliest dates.
fetch_ohlcv(bars, tickers) ==
    LET L == MaxOfSeq([i \in 1..Len(tickers) |-> Len(bars[tickers[i]])])
    IN  [t \in Range(tickers) |->
            LET pad == L - Len(bars[t])
            IN  [i \in 1..L |-> IF i <= pad THEN NaNBar ELSE bars[t][i - pad]]]

\* series.diff() at row j, with delta.where(delta > 0, 0) and
\* delta.where(delta < 0, 0) of lines 10-11: a NaN difference counts as 0
Delta(close, j) ==
    IF j < 2 THEN 0
    ELSE IF close[j] = NaN \/ close[j - 1] = NaN THEN 0
    ELSE close[j] - close[j - 1]

\* rsi (screener.py) at row k >= 14: 100 - 100 / (1 + gain / (loss + 1e-9))
rsi(close, k) ==
    LET d == [i \in 1..14 |-> Delta(close, k - 14 + i)]
        gain == SumSeq([i \in 1..14 |-> IF d[i] > 0 THEN d[i] ELSE 0])
        loss == SumSeq([i \in 1..14 |-> IF d[i] < 0 THEN 0 - d[i] ELSE 0])
    IN  IF gain = 0 THEN Q(0, 1) ELSE Q(100 * gain, gain + loss)

\* q > 50 and q <= 50 of floats: both false for NaN
Above50(q) == ~IsNaN(q) /\ q.num > 50 * q.den

AtMost50(q) == ~IsNaN(q) /\ q.num <= 50 * q.den

\* compute_signals(df).iloc[-1] for a frame of 30 rows or more
compute_signals(df) ==
    LET L == Len(df)
        close == [i \in 1..L |-> df[i].Close]
        vols == [i \in 1..20 |-> df[L - 20 + i].Volume]
        highs == [i \in 1..20 |-> df[L - 21 + i].High]
        Vol20 == IF NaN \in Range(vols) THEN NaNQ ELSE Q(SumSeq(vols), 20)
        VolSpike == IF IsNaN(Vol20) THEN NaNQ
                    ELSE IF Vol20.num = 0 THEN Q(0, 1)
                    ELSE Q(df[L].Volume * Vol20.den, Vol20.num)
        High20 == IF NaN \in Range(highs) THEN NaN ELSE MaxOfSeq(highs)
    IN  [VolSpike |-> VolSpike,
         Breakout20 |-> IF High20 # NaN /\ df[L].Close # NaN /\ df[L].Close > High20
                        THEN 1 ELSE 0,
         RSI_Cross_50 |-> IF Above50(rsi(close, L)) /\ AtMost50(rsi(close, L - 1))
                          THEN 1 ELSE 0,
         PctChange |-> IF df[L].Close = NaN \/ df[L - 1].Close = NaN THEN NaNQ
                       ELSE Q(df[L].Close - df[L - 1].Close, df[L - 1].Close),
         GapUp5 |-> IF df[L].Open # NaN /\ df[L - 1].Close # NaN
                       /\ 100 * df[L].Open > 105 * df[L - 1].Close
                    THEN 1 ELSE 0]

\* the row of lines 50-59
SignalRow(t, df) ==
    LET sig == compute_signals(df)
    IN  [ticker |-> t,
         vol_spike |-> IF IsNaN(sig.VolSpike) THEN Q(0, 1) ELSE sig.VolSpike,
         breakout20 |-> sig.Breakout20,
         rsi_cross_50 |-> sig.RSI_Cross_50,
         pct_change |-> sig.PctChange,
         gap_up_5 |-> sig.GapUp5]

\* lines 64-68: the mean sentiment of the ticker's rows of sentiment_df
\* (values in hundredths), NaN for a ticker without rows, 0.0 without a table
news_sentiment(sent, t) ==
    LET mine == SelectSeq(sent.rows, LAMBDA r : r.ticker = t)
    IN  IF ~sent.given \/ sent.rows = <<>> THEN Q(0, 1)
        ELSE IF mine = <<>> THEN NaNQ
        ELSE Q(SumSeq([i \in 1..Len(mine) |-> mine[i].sentiment]), 100 * Len(mine))

\* the score with vol_spike not clipped
ScoreNoClip(vol_spike, breakout20, rsi_cross_50, ns) ==
    LET s == IF IsNaN(ns) THEN Q(0, 1) ELSE ns
        sn == IF s.num > s.den THEN s.den ELSE IF s.num < 0 - s.den THEN 0 - s.den ELSE s.num
    IN  Q(180 * vol_spike.num * s.den + (1000 * breakout20 + 600 * rsi_cross_50) * vol_spike.den * s.den
              + 300 * (sn + s.den) * vol_spike.den,
          4000 * vol_spike.den * s.den)

\* lines 70-75: (vol_spike.clip(0, 10) / 10.0) * 0.45 + breakout20 * 0.25
\* + rsi_cross_50 * 0.15 + (news_sentiment.fillna(0).clip(-1, 1) + 1) / 2 * 0.15
\* over the common denominator 4000 * vol_spike.den * sentiment.den
discovery_score(vol_spike, breakout20, rsi_cross_50, ns) ==
    LET vn == IF vol_spike.num > 10 * vol_spike.den THEN 10 * vol_spike.den
              ELSE IF vol_spike.num < 0 THEN 0 ELSE vol_spike.num
        s == IF IsNaN(ns) THEN Q(0, 1) ELSE ns
        sn == IF s.num > s.den THEN s.den ELSE IF s.num < 0 - s.den THEN 0 - s.den ELSE s.num
    IN  Q(180 * vn * s.den + (1000 * breakout20 + 600 * rsi_cross_50) * vol_spike.den * s.den
              + 300 * (sn + s.den) * vol_spike.den,
          4000 * vol_spike.den * s.den)

\* p >= q for floats held as fractions with positive denominators
QGeq(p, q) == p.num * q.den >= q.num * p.den

\* the orders sort_values("discovery_score", ascending=False) can leave the
\* rows in: the default kind is quicksort, which fixes no order between rows
\* of equal score
Sorted(rows) ==
    {s \in [1..Len(rows) -> Range(rows)] :
        /\ \A r \in Range(rows) : \E i \in 1..Len(rows) : s[i] = r
        /\ \A i \in 1..Len(rows) - 1 : QGeq(s[i].discovery_score, s[i + 1].discovery_score)}

\* the 30 trading days of line 48
MinBars == 30

\* lines 46-59: a row per ticker whose frame has 30 rows or more
ScreenRows(frames, tickers) ==
    LET kept == SelectSeq(tickers, LAMBDA t : Len(frames[t]) >= MinBars)
    IN  [i \in 1..Len(kept) |-> SignalRow(kept[i], frames[kept[i]])]

\* screen(tickers, sentiment_df): the set of tables it can return
screen(bars, tickers, sent) ==
    LET rows == ScreenRows(fetch_ohlcv(bars, tickers), tickers)
        scored == [i \in 1..Len(rows) |->
                      LET m == news_sentiment(sent, rows[i].ticker)
                      IN  [ticker |-> rows[i].ticker,
                           vol_spike |-> rows[i].vol_spike,
                           breakout20 |-> rows[i].breakout20,
                           rsi_cross_50 |-> rows[i].rsi_cross_50,
                           pct_change |-> rows[i].pct_change,
                           gap_up_5 |-> rows[i].gap_up_5,
                           news_sentiment |-> m,
                           discovery_score |-> discovery_score(rows[i].vol_spike,
                               rows[i].breakout20, rows[i].rsi_cross_50, m)]]
    IN  IF rows = <<>> THEN {<<>>} ELSE Sorted(scored)

\* rsi (prep_discovery.py) at row k >= 15: gain / loss.replace(0, np.nan)
rsi_prep(close, k) ==
    LET d == [i \in 1..14 |-> close[k - 14 + i] - close[k - 15 + i]]
        gain == SumSeq([i \in 1..14 |-> IF d[i] > 0 THEN d[i] ELSE 0])
        loss == SumSeq([i \in 1..14 |-> IF d[i] < 0 THEN 0 - d[i] ELSE 0])
    IN  IF loss = 0 THEN NaNQ ELSE Q(100 * gain, gain + loss)

\* compute_for_ticker: hist is the download of the one ticker, its own bars
compute_for_ticker(ticker, hist) ==
    IF Len(hist) < 21 THEN [ticker |-> ticker]
    ELSE LET n == Len(hist)
             close == [i \in 1..n |-> hist[i].Close]
             today == hist[n]
             prev == hist[n - 1]
             vol20 == SumSeq([i \in 1..20 |-> hist[n - 21 + i].Volume])
             high20 == MaxOfSeq([i \in 1..20 |-> hist[n - 21 + i].High])
             rsi_today == rsi_prep(close, n)
             rsi_prev == rsi_prep(close, n - 1)
         IN  [ticker |-> ticker,
              vol_spike |-> IF vol20 > 0 THEN RoundHalfEven(100 * 20 * today.Volume, vol20)
                            ELSE NaN,
              breakout20 |-> IF today.High > high20 THEN 1 ELSE 0,
              rsi_cross_50 |-> IF IsNaN(rsi_today) \/ IsNaN(rsi_prev) THEN NaN
                               ELSE IF AtMost50(rsi_prev) /\ Above50(rsi_today) THEN 1 ELSE 0,
              pct_change |-> RoundHalfEven(10000 * (today.Close - prev.Close), prev.Close),
              gap_up_5 |-> IF 100 * (today.Open - prev.Close) >= 5 * prev.Close THEN 1 ELSE 0,
              last_close |-> today.Close,
              prev_close |-> prev.Close,
              open |-> today.Open]

\* ----------------------------------------------- the bars a provider holds
\* A quiet history (open 100, high 101, close 100) of n bars ending today,
\* with a dip of the close 14 bars ago, a high of 110 inside (20 bars ago) or
\* outside (21 bars ago) the 20-day window, yesterday's close, today's open,
\* high and close, the volume of the earlier days and today's.
BarCounts == {20, 21, 29, 30}

Todays == {<<100, 101, 100>>, <<105, 105, 100>>, <<106, 106, 106>>,
           <<100, 101, 101>>, <<100, 102, 102>>, <<104, 104, 99>>}

Volumes == {<<0, 0>>, <<0, 1000>>, <<1000, 1000>>, <<1000, 2000>>}

History(n, dip, spike, cy, td, vol) ==
    [i \in 1..n |->
        IF i = n THEN Bar(td[1], td[2], td[3], vol[2])
        ELSE Bar(100,
                 IF (spike = "in" /\ i = n - 20) \/ (spike = "out" /\ i = n - 21)
                 THEN 110 ELSE 101,
                 IF i = n - 1 THEN cy ELSE IF dip /\ i = n - 14 THEN 99 ELSE 100,
                 vol[1])]

Histories ==
    {History(n, dip, spike, cy, td, vol) :
        n \in BarCounts, dip \in BOOLEAN, spike \in {"no", "in", "out"},
        cy \in {99, 100}, td \in Todays, vol \in Volumes}

\* the second ticker: 29 or 30 bars, quiet or rising today
Companions ==
    {History(n, FALSE, "no", 100, td, <<1000, 1000>>) :
        n \in {29, 30}, td \in {<<100, 101, 100>>, <<106, 106, 106>>}}

ScreenLists == {<<"A">>, <<"A", "B">>}

SentRow(t, s) == [ticker |-> t, sentiment |-> s]

\* sentiment_df: None, empty, or rows with a sentiment in hundredths
Sentiments ==
    {NoSentiment, [given |-> TRUE, rows |-> <<>>]}
    \cup {[given |-> TRUE, rows |-> rs] :
            rs \in {<<SentRow("A", 50)>>, <<SentRow("A", 100), SentRow("A", 50)>>,
                    <<SentRow("A", 150)>>, <<SentRow("A", 0 - 150)>>,
                    <<SentRow("B", 0 - 50)>>}}

InitScreen ==
    /\ has = [l \in Libs |-> TRUE]
    /\ cfg = NoCreds
    /\ cache = EmptyCache
    /\ now = Epoch
    /\ calls = 0
    /\ call \in {[NoCall EXCEPT !.tickers = l] : l \in ScreenLists}
    /\ rets = NoRets
    /\ reqs = {}
    /\ loads = {}
    /\ long = <<>>
    /\ wide = Pivot(<<>>)
    /\ err = FALSE
    /\ data \in {[t \in {"A", "B"} |-> IF t = "A" THEN a ELSE b] :
                    a \in Histories, b \in Companions}
    /\ sentiment \in Sentiments
    /\ out = NotRun
    /\ prep = NotRun
    /\ batch = NoBatch
    /\ file = NoBytes
    /\ procs = NoProcs
    /\ HEADERS = NoHeaders
    /\ sec = NoSec

\* screen(tickers, sentiment_df)
Screen ==
    /\ ~out.done
    /\ \E tbl \in screen(data, call.tickers, sentiment) :
            out' = [done |-> TRUE, rows |-> tbl]
    /\ UNCHANGED <<has, cfg, cache, now, calls, call, rets, reqs, loads, long, wide, err>>
    /\ UNCHANGED <<data, sentiment, prep, batch, file, procs, HEADERS, sec>>

\* prep_discovery.main, lines 106-110: compute_for_ticker for every ticker
PrepDiscovery ==
    /\ ~prep.done
    /\ prep' = [done |-> TRUE,
                rows |-> [i \in 1..Len(call.tickers) |->
                             compute_for_ticker(call.tickers[i], data[call.tickers[i]])]]
    /\ UNCHANGED <<has, cfg, cache, now, calls, call, rets, reqs, loads, long, wide, err>>
    /\ UNCHANGED <<data, sentiment, out, batch, file, procs, HEADERS, sec>>

NextScreen == Screen \/ PrepDiscovery

SpecScreen == InitScreen /\ [][NextScreen]_vars

\* --------------------------------------------------- binary64 arithmetic
\* The scores of merge_signals are numpy float64.  A float is modelled bit for
\* bit: sign s, mantissa m of Mant bits, exponent e, of value s * m * 2^e; every
\* operation rounds its exact result to the nearest float, ties to the even
\* mantissa.  The mantissa is a natural number of limbs to the base Base, the
\* lowest limb first.  Infinities, subnormals and the sign of zero are left
\* out: no value of the tables modelled here comes near them.
Base == 32768
LimbBits == 15
Mant == 53

\* the value of an expression, computed once
Val(S) == CHOOSE v \in S : TRUE

Limb(a, i) == IF i <= Len(a) THEN a[i] ELSE 0

RECURSIVE BTrim(_)
BTrim(a) ==
    IF a # <<>> /\ a[Len(a)] = 0 THEN BTrim(SubSeq(a, 1, Len(a) - 1)) ELSE a

RECURSIVE BFromInt(_)
BFromInt(n) == IF n = 0 THEN <<>> ELSE <<n % Base>> \o BFromInt(n \div Base)

RECURSIVE BAddFrom(_, _, _, _)
BAddFrom(a, b, i, carry) ==
    IF i > Len(a) /\ i > Len(b)
    THEN IF carry = 0 THEN <<>> ELSE <<carry>>
    ELSE LET s == Limb(a, i) + Limb(b, i) + carry
         IN  <<s % Base>> \o BAddFrom(a, b, i + 1, s \div Base)

BAdd(a, b) == BAddFrom(a, b, 1, 0)

RECURSIVE BSubFrom(_, _, _, _)
BSubFrom(a, b, i, borrow) ==
    IF i > Len(a) THEN <<>>
    ELSE LET s == a[i] - Limb(b, i) - borrow
         IN  <<IF s < 0 THEN s + Base ELSE s>>
                 \o BSubFrom(a, b, i + 1, IF s < 0 THEN 1 ELSE 0)

\* a - b, for a >= b
BSub(a, b) == BTrim(BSubFrom(a, b, 1, 0))

RECURSIVE BCmpAt(_, _, _)
BCmpAt(a, b, i) ==
    IF i = 0 THEN 0
    ELSE IF a[i] > b[i] THEN 1
    ELSE IF a[i] < b[i] THEN 0 - 1
    ELSE BCmpAt(a, b, i - 1)

BCmp(a, b) ==
    IF Len(a) > Len(b) THEN 1
    ELSE IF Len(a) < Len(b) THEN 0 - 1
    ELSE BCmpAt(a, b, Len(a))

RECURSIVE BMulSmallFrom(_, _, _, _)
BMulSmallFrom(a, k, i, carry) ==
    IF i > Len(a)
    THEN IF carry = 0 THEN <<>> ELSE <<carry>>
    ELSE LET s == a[i] * k + carry
         IN  <<s % Base>> \o BMulSmallFrom(a, k, i + 1, s \div Base)

\* a * k, for a limb k
BMulSmall(a, k) == IF k = 0 THEN <<>> ELSE BMulSmallFrom(a, k, 1, 0)

Zeros(n) == [i \in 1..n |-> 0]

RECURSIVE BMulFrom(_, _, _)
BMulFrom(a, b, j) ==
    IF j > Len(b) THEN <<>>
    ELSE BAdd(BTrim(Zeros(j - 1) \o BMulSmall(a, b[j])), BMulFrom(a, b, j + 1))

BMul(a, b) == BMulFrom(a, b, 1)

\* a * 2^n
BShl(a, n) ==
    IF a = <<>> THEN <<>>
    ELSE Zeros(n \div LimbBits) \o BMulSmall(a, 2 ^ (n % LimbBits))

\* a \div 2^n
BShr(a, n) ==
    LET q == n \div LimbBits
        r == n % LimbBits
        x == IF q >= Len(a) THEN <<>> ELSE SubSeq(a, q + 1, Len(a))
    IN  BTrim([i \in 1..Len(x) |->
                  (x[i] \div 2 ^ r) + (Limb(x, i + 1) % 2 ^ r) * 2 ^ (LimbBits - r)])

RECURSIVE IntBits(_)
IntBits(n) == IF n = 0 THEN 0 ELSE 1 + IntBits(n \div 2)

\* the number of bits of a
BBits(a) == IF a = <<>> THEN 0 ELSE LimbBits * (Len(a) - 1) + IntBits(a[Len(a)])

\* bit k of a, the lowest being bit 0
Bit(a, k) == (Limb(a, k \div LimbBits + 1) \div 2 ^ (k % LimbBits)) % 2

Zero == [s |-> 1, m |-> <<>>, e |-> 0]

IsZero(x) == x = Zero

\* s * (m + d) * 2^e rounded to a float, where 0 <= d < 1 and d > 0 iff sticky
\* (a sticky m has more than Mant + 1 bits)
Rounded(s, m, e, sticky, n) ==
    IF n = 0 THEN Zero
    ELSE IF n <= Mant THEN [s |-> s, m |-> BShl(m, Mant - n), e |-> e - (Mant - n)]
    ELSE LET sh == n - Mant
             q == BShr(m, sh)
             rest == sticky \/ BShl(BShr(m, sh - 1), sh - 1) # m
             up == Bit(m, sh - 1) = 1 /\ (rest \/ Bit(q, 0) = 1)
             r == IF up THEN BAdd(q, <<1>>) ELSE q
         IN  IF BBits(r) > Mant
             THEN [s |-> s, m |-> BShr(r, 1), e |-> e + sh + 1]
             ELSE [s |-> s, m |-> r, e |-> e + sh]

RoundBig(s, m0, e, sticky) ==
    Val({Rounded(s, m, e, sticky, BBits(m)) : m \in {m0}})

FromInt(n) == RoundBig(IF n < 0 THEN 0 - 1 ELSE 1, BFromInt(Abs(n)), 0, FALSE)

FNeg(x) == IF IsZero(x) THEN x ELSE [x EXCEPT !.s = 0 - x.s]

Added(x, y) ==
    IF IsZero(x) THEN y
    ELSE IF IsZero(y) THEN x
    ELSE LET hi == IF x.e >= y.e THEN x ELSE y
             lo == IF x.e >= y.e THEN y ELSE x
             d == hi.e - lo.e
         IN  IF d > Mant + 2 THEN hi
             ELSE LET a == BShl(hi.m, d)
                      c == BCmp(a, lo.m)
                  IN  IF hi.s = lo.s THEN RoundBig(hi.s, BAdd(a, lo.m), lo.e, FALSE)
                      ELSE IF c = 0 THEN Zero
                      ELSE IF c > 0 THEN RoundBig(hi.s, BSub(a, lo.m), lo.e, FALSE)
                      ELSE RoundBig(lo.s, BSub(lo.m, a), lo.e, FALSE)

\* x + y
FAdd(x0, y0) == Val({Added(x, y) : x \in {x0}, y \in {y0}})

FSub(x, y) == FAdd(x, FNeg(y))

Multiplied(x, y) ==
    IF IsZero(x) \/ IsZero(y) THEN Zero
    ELSE RoundBig(x.s * y.s, BMul(x.m, y.m), x.e + y.e, FALSE)

\* x * y
FMul(x0, y0) == Val({Multiplied(x, y) : x \in {x0}, y \in {y0}})

\* one more bit of the quotient of a long division by d; st is <<quotient so
\* far, remainder>>, the remainder below d
Div1(st0, d) ==
    Val({LET r2 == BMulSmall(st[2], 2)
             ge == BCmp(r2, d) >= 0
         IN  <<BAdd(BMulSmall(st[1], 2), IF ge THEN <<1>> ELSE <<>>),
               IF ge THEN BSub(r2, d) ELSE r2>> : st \in {st0}})

Div2(st, d) == Div1(Div1(st, d), d)
Div4(st, d) == Div2(Div2(st, d), d)
Div8(st, d) == Div4(Div4(st, d), d)

\* k more bits
RECURSIVE DivBits(_, _, _)
DivBits(st0, d, k) ==
    Val({IF k = 0 THEN st
         ELSE IF k >= 8 THEN DivBits(Div8(st, d), d, k - 8)
         ELSE DivBits(Div1(st, d), d, k - 1) : st \in {st0}})

Divided(x, y) ==
    IF IsZero(x) THEN Zero
    ELSE Val({RoundBig(x.s * y.s, qr[1], x.e - y.e - (Mant + 2), qr[2] # <<>>) :
                qr \in {LET ge == BCmp(x.m, y.m) >= 0
                        IN  DivBits(<<IF ge THEN <<1>> ELSE <<>>,
                                      IF ge THEN BSub(x.m, y.m) ELSE x.m>>,
                                    y.m, Mant + 2)}})

\* x / y, for y # 0
FDiv(x0, y0) == Val({Divided(x, y) : x \in {x0}, y \in {y0}})

\* r with bit k set if its square stays within a
Root1(a, r0, k) ==
    Val({LET t == BAdd(r, BShl(<<1>>, k))
         IN  IF BCmp(BMul(t, t), a) <= 0 THEN t ELSE r : r \in {r0}})

Root2(a, r, k) == Root1(a, Root1(a, r, k), k - 1)
Root4(a, r, k) == Root2(a, Root2(a, r, k), k - 2)
Root8(a, r, k) == Root4(a, Root4(a, r, k), k - 4)

\* the largest r with r * r <= a, bit by bit from bit k down
RECURSIVE RootBits(_, _, _)
RootBits(a, r0, k) ==
    Val({IF k < 0 THEN r
         ELSE IF k >= 7 THEN RootBits(a, Root8(a, r, k), k - 8)
         ELSE RootBits(a, Root1(a, r, k), k - 1) : r \in {r0}})

Root(x, k) ==
    Val({Val({RoundBig(1, r, (x.e - k) \div 2, BMul(r, r) # a) :
                r \in {RootBits(a, <<>>, Mant + 2)}}) :
            a \in {BShl(x.m, k)}})

\* sqrt(x), for x >= 0
FSqrt(x0) ==
    Val({IF IsZero(x) THEN Zero
         ELSE Root(x, IF (x.e - (Mant + 3)) % 2 = 0 THEN Mant + 3 ELSE Mant + 4) :
            x \in {x0}})

\* the float of the decimal literal n / d
Dec(n, d) == FDiv(FromInt(n), FromInt(d))

\* not-a-number: what a left join leaves for a ticker the other table lacks
NaNF == [s |-> 1, m |-> <<>>, e |-> 1]


\* ------------------------------------------------- the pulse: merge_and_score
\* the literals of merge_signals.py
Eps == Dec(1, 1000000000)
NewsWeight == Dec(6, 10)
ChatterWeight == Dec(4, 10)

\* numpy's sum of fewer than eight values: one after the other
RECURSIVE FSum(_, _)
FSum(vals, n) == IF n = 0 THEN Zero ELSE FAdd(FSum(vals, n - 1), vals[n])

\* Series.mean()
Mean(vals) == FDiv(FSum(vals, Len(vals)), FromInt(Len(vals)))

\* Series.std(ddof=0): the root of the mean of (avg - values) ** 2
Std(vals) ==
    Val({FSqrt(FDiv(FSum([i \in 1..Len(vals) |->
                            Val({FMul(d, d) : d \in {FSub(avg, vals[i])}})],
                         Len(vals)),
                    FromInt(Len(vals)))) : avg \in {Mean(vals)}})

\* zscore, lines 5-6
zscore(vals) ==
    Val({[i \in 1..Len(vals) |-> FDiv(FSub(vals[i], ms[1]), ms[2])] :
            ms \in {<<Mean(vals), FAdd(Std(vals), Eps)>>}})

\* the sum of a group in groupby(...).mean(): compensated, <<sum, compensation>>
RECURSIVE GroupSum(_, _)
GroupSum(vals, n) ==
    IF n = 0 THEN <<Zero, Zero>>
    ELSE Val({Val({Val({<<t, FSub(FSub(t, acc[1]), y)>> : t \in {FAdd(acc[1], y)}}) :
                    y \in {FSub(vals[n], acc[2])}}) :
                acc \in {GroupSum(vals, n - 1)}})

GroupMean(vals) == FDiv(GroupSum(vals, Len(vals))[1], FromInt(Len(vals)))

\* the tickers a table can hold, in the order groupby sorts them
NewsTickers == <<"A", "B", "C">>

\* the column col of the rows of ticker t
Column(rows, t, col) ==
    LET own == SelectSeq(rows, LAMBDA r : r.ticker = t)
    IN  [i \in 1..Len(own) |-> own[i][col]]

Groups(rows) == SelectSeq(NewsTickers, LAMBDA t : \E i \in 1..Len(rows) : rows[i].ticker = t)

fillna(vals) == [i \in 1..Len(vals) |-> IF vals[i] = NaNF THEN Zero ELSE vals[i]]

\* merge_and_score(news_df, x_counts_df), lines 9-23
merge_and_score(news, xc) ==
    LET keys == Groups(news)
        by_ticker == [i \in 1..Len(keys) |-> GroupMean(Column(news, keys[i], "sentiment"))]
        x_chatter_change ==
            IF xc.given /\ xc.rows # <<>>
            THEN [i \in 1..Len(keys) |->
                    IF \E j \in 1..Len(xc.rows) : xc.rows[j].ticker = keys[i]
                    THEN GroupMean(Column(xc.rows, keys[i], "change"))
                    ELSE NaNF]
            ELSE [i \in 1..Len(keys) |-> Zero]
    IN  Val({[i \in 1..Len(keys) |->
                [ticker |-> keys[i],
                 news_sentiment |-> by_ticker[i],
                 x_chatter_change |-> x_chatter_change[i],
                 score |-> FAdd(FMul(z[1][i], NewsWeight), FMul(z[2][i], ChatterWeight))]] :
             z \in {<<zscore(fillna(by_ticker)), zscore(fillna(x_chatter_change))>>}})

\* ---------------------------------------------- the tables a merge is given
MaxRows == 3

NewsVals == {Dec(1, 10), FNeg(Dec(1, 2))}

NewsRow(t, v) == [ticker |-> t, sentiment |-> v]

NewsTables ==
    UNION {[1..n -> {NewsRow(t, v) : t \in Range(NewsTickers), v \in NewsVals}] :
            n \in 1..MaxRows}

ChatterRow(t, n, v) == [ticker |-> t, count |-> n, change |-> v]

\* x_counts_df: None, an empty table, a table of one ticker
ChatterTables ==
    {NoSentiment, [given |-> TRUE, rows |-> <<>>],
     [given |-> TRUE, rows |-> <<ChatterRow("A", 1, Dec(1, 2))>>]}

InitMerge ==
    /\ has = [l \in Libs |-> TRUE]
    /\ cfg = NoCreds
    /\ cache = EmptyCache
    /\ now = Epoch
    /\ calls = 0
    /\ call = NoCall
    /\ rets = NoRets
    /\ reqs = {}
    /\ loads = {}
    /\ long = <<>>
    /\ wide = Pivot(<<>>)
    /\ err = FALSE
    /\ data \in NewsTables
    /\ sentiment \in ChatterTables
    /\ out = NotRun
    /\ prep = NotRun
    /\ batch = NoBatch
    /\ file = NoBytes
    /\ procs = NoProcs
    /\ HEADERS = NoHeaders
    /\ sec = NoSec

\* run_once.main, line 258, for any chatter table
MergeAndScore ==
    /\ ~out.done
    /\ out' = [done |-> TRUE, rows |-> merge_and_score(data, sentiment)]
    /\ UNCHANGED <<has, cfg, cache, now, calls, call, rets, reqs, loads, long, wide, err>>
    /\ UNCHANGED <<data, sentiment, prep, batch, file, procs, HEADERS, sec>>

NextMerge == MergeAndScore

SpecMerge == InitMerge /\ [][NextMerge]_vars

\* ------------------------------------------------- the batch: run_once.main
\* what a fetch of one ticker's feed gives: an exception (Fail), or so many items
FeedOutcomes == Fail..1

\* the row of a headline; a failed fetch leaves a row of its own (line 82)
RECURSIVE HeadlineRows(_, _, _)
HeadlineRows(tickers, h, i) ==
    IF i > Len(tickers) THEN <<>>
    ELSE (IF h[tickers[i]] = 0 THEN <<>> ELSE <<[ticker |-> tickers[i]]>>)
            \o HeadlineRows(tickers, h, i + 1)

\* main's first lines: the universe of the run, [sec] enabled or not
InitBatch ==
    /\ has \in {[l \in Libs |-> TRUE], [l \in Libs |-> l = "praw"]}
    /\ cfg \in {NoCreds, Creds}
    /\ cache = EmptyCache
    /\ now = Epoch
    /\ calls = 0
    /\ call \in {[NoCall EXCEPT !.op = "main", !.tickers = l] : l \in ScreenLists}
    /\ rets = NoRets
    /\ reqs = {}
    /\ loads = {}
    /\ long = <<>>
    /\ wide = Pivot(<<>>)
    /\ err = FALSE
    /\ data = <<>>
    /\ sentiment = NoSentiment
    /\ out = NotRun
    /\ prep = NotRun
    /\ batch \in {[NoBatch EXCEPT !.step = "news", !.sec = e] : e \in BOOLEAN}
    /\ file = NoBytes
    /\ procs = NoProcs
    /\ HEADERS = NoHeaders
    /\ sec = NoSec

\* an exception left main: nothing after it runs
Halt(why) == [batch EXCEPT !.step = "end", !.halted = TRUE, !.failed = @ \cup {why}]

\* lines 250-254: build_news_and_sentiment, lines 72-95, and news_scored.csv.
\* avail: the news module was imported; scorer: the sentiment module was not
\* imported, or SentimentScorer() and score_texts return, or one of them raises
BatchNews ==
    /\ batch.step = "news"
    /\ \E avail \in BOOLEAN, scorer \in {"none", "ok", "raises"},
          h \in [Range(call.tickers) -> FeedOutcomes] :
        \E rows \in {IF avail THEN HeadlineRows(call.tickers, h, 1) ELSE <<>>} :
        \E scores \in [1..Len(rows) -> NewsVals] :
        LET fetched == IF avail /\ \E t \in DOMAIN h : h[t] = Fail
                       THEN {"headlines"} ELSE {}
        IN  IF rows = <<>>
            THEN /\ batch' = [batch EXCEPT !.step = "pulse", !.failed = @ \cup fetched]
                 /\ data' = <<>>
            ELSE IF scorer = "raises"
            THEN /\ batch' = [Halt("scoring") EXCEPT !.failed = @ \cup fetched]
                 /\ data' = data
            ELSE /\ batch' = [batch EXCEPT !.step = "pulse", !.failed = @ \cup fetched,
                                           !.written = @ \cup {"news_scored.csv"}]
                 /\ data' = [i \in 1..Len(rows) |->
                                NewsRow(rows[i].ticker,
                                        IF scorer = "none" THEN Zero ELSE scores[i])]
    /\ UNCHANGED <<has, cfg, cache, now, calls, call, rets, reqs, loads, long, wide, err>>
    /\ UNCHANGED <<sentiment, out, prep, file, procs, HEADERS, sec>>

\* lines 256-262: the pulse; merge: merge_signals was not imported, or
\* merge_and_score and to_csv return, or one of them raises
BatchPulse ==
    /\ batch.step = "pulse"
    /\ \E merge \in {"none", "ok", "raises"} :
        IF merge = "none" \/ data = <<>>
        THEN /\ batch' = [batch EXCEPT !.step = "attention"]
             /\ out' = out
        ELSE IF merge = "raises"
        THEN /\ batch' = [batch EXCEPT !.step = "attention", !.failed = @ \cup {"pulse"}]
             /\ out' = out
        ELSE /\ batch' = [batch EXCEPT !.step = "attention",
                                       !.written = @ \cup {"pulse_scores.csv"}]
             /\ out' = [done |-> TRUE, rows |-> merge_and_score(data, NoSentiment)]
    /\ UNCHANGED <<has, cfg, cache, now, calls, call, rets, reqs, loads, long, wide, err>>
    /\ UNCHANGED <<data, sentiment, prep, file, procs, HEADERS, sec>>

\* lines 265-268: build_attention and the two tables
BatchAttention ==
    /\ batch.step = "attention"
    /\ \E lv \in [Range(call.tickers) -> CountResps] :
        \E a \in {aggregate_attention(cache, now, has, call.tickers, cfg, MaxTtl, FALSE,
                                      NetOf(lv))} :
        LET failed == IF \E t \in DOMAIN lv : lv[t] = Fail THEN {"adapter"} ELSE {}
        IN  /\ cache' = a.cache
            /\ rets' = a.rets
            /\ reqs' = a.reqs
            /\ loads' = a.loads
            /\ err' = a.raised
            /\ long' = a.long
            /\ wide' = Pivot(a.long)
            /\ batch' = IF a.raised
                        THEN [Halt("aggregate") EXCEPT !.failed = @ \cup failed]
                        ELSE [batch EXCEPT !.step = "sec", !.failed = @ \cup failed,
                                          !.written = @ \cup {"chatter.csv",
                                                              "chatter_summary.csv"}]
    /\ calls' = calls + 1
    /\ UNCHANGED <<has, cfg, now, call, data, sentiment, out, prep, file, procs, HEADERS, sec>>

\* line 271: build_sec, lines 177-240.  pull: sec.main was not imported, raises,
\* or returns no rows or some; atom: the Atom feed of each ticker
BatchSec ==
    /\ batch.step = "sec"
    /\ \E pull \in {"none", "raises", "empty", "rows"},
          atom \in [Range(call.tickers) -> FeedOutcomes] :
        LET fallback == pull # "rows"
            found == ~fallback \/ HeadlineRows(call.tickers, atom, 1) # <<>>
            failed == (IF pull = "raises" THEN {"sec_pull"} ELSE {})
                        \cup (IF fallback /\ \E t \in DOMAIN atom : atom[t] = Fail
                              THEN {"atom"} ELSE {})
        IN  batch' = IF ~batch.sec THEN [batch EXCEPT !.step = "end"]
                     ELSE [batch EXCEPT !.step = "end", !.failed = @ \cup failed,
                                       !.written = @ \cup IF found THEN {"sec_filings.csv"}
                                                          ELSE {}]
    /\ UNCHANGED <<has, cfg, cache, now, calls, call, rets, reqs, loads, long, wide, err>>
    /\ UNCHANGED <<data, sentiment, out, prep, file, procs, HEADERS, sec>>

NextBatch == BatchNews \/ BatchPulse \/ BatchAttention \/ BatchSec

SpecBatch == InitBatch /\ [][NextBatch]_vars

\* ------------------------------------------- the Reddit feeds of a ticker
\* What the two searches of a ticker can return: each feed raises or holds up
\* to MaxEntries entries, of two links, stamped within the day, within the
\* lookback, before it, or not at all.
MaxEntries == 2

FeedAges == {NoStamp, 0, 3, LookbackDays + 2}

Feeds ==
    {[raise |-> TRUE, entries |-> <<>>]}
        \cup {[raise |-> FALSE, entries |-> es] :
                es \in UNION {[1..n -> [link : 1..2, age : FeedAges]] : n \in 0..MaxEntries}}

InitRss ==
    /\ has = [l \in Libs |-> TRUE]
    /\ cfg = NoCreds
    /\ cache = EmptyCache
    /\ now = Epoch
    /\ calls = 0
    /\ call = NoCall
    /\ rets = NoRets
    /\ reqs = {}
    /\ loads = {}
    /\ long = <<>>
    /\ wide = Pivot(<<>>)
    /\ err = FALSE
    /\ data \in {[t \in Range(Universe) |-> IF t = "A" THEN <<f, g>> ELSE RssOf(r)] :
                    f \in Feeds, g \in Feeds, r \in {Fail, MaxCount}}
    /\ sentiment = NoSentiment
    /\ out = NotRun
    /\ prep = NotRun
    /\ batch = NoBatch
    /\ file = NoBytes
    /\ procs = NoProcs
    /\ HEADERS = NoHeaders
    /\ sec = NoSec

\* get_reddit_rss(tickers, ttl=ttl, force_refresh=force) against these feeds
PollFeeds ==
    \E tickers \in {<<"A">>, <<"A", "b">>}, force \in BOOLEAN :
        Called("reddit_rss", tickers, cfg, MaxTtl, force,
               get_reddit_rss(cache, now, has["feedparser"], tickers, MaxTtl, force, data))

NextRss == PollFeeds

SpecRss == InitRss /\ [][NextRss]_vars

\* ------------------------------- two processes and one file of data/.cache
\* _save_cache and _load_cache of one key, system call by system call.  A text
\* file opened with "w" is cut to length 0 by open; json.dump fills the
\* buffer of the file object, which is written at the descriptor's own offset
\* each time it is full and once more by close.  The JSON text of a save is
\* modelled as its buffer-loads: piece k of n of the save doc.  _load_cache
\* tests os.path.exists, opens, and json.load reads until a read returns
\* nothing, then parses.
MaxPieces == 2
MaxOps == 2

Procs == {1, 2}

\* the bytes a write past the end of the file leaves before it
Hole == [doc |-> <<0, 0>>, k |-> 0, n |-> 0]

Piece(doc, k, n) == [doc |-> doc, k |-> k, n |-> n]

\* the file after a write of piece pc at the offset of off pieces
WriteAt(content, off, pc) ==
    [i \in 1..(IF Len(content) > off + 1 THEN Len(content) ELSE off + 1) |->
        IF i = off + 1 THEN pc
        ELSE IF i <= Len(content) THEN content[i]
        ELSE Hole]

\* json.load of the bytes read: the text of one object, from its first piece
\* to its last, with nothing after it.  (Two texts of the same number of
\* pieces are taken to break at the same places: the rows of the same
\* tickers, with numbers of as many digits.)  Anything else raises, and
\* _load_cache returns None (lines 51-53).
WellFormed(buf) ==
    /\ buf # <<>>
    /\ \A i \in 1..Len(buf) : buf[i].k = i /\ buf[i].n = Len(buf)

\* blob.get("payload") of the bytes read: the saves its pieces come from.
\* Every save here is younger than the TTL, so the test of line 50 passes.
Parsed(buf) ==
    IF WellFormed(buf)
    THEN [some |-> TRUE, docs |-> {buf[i].doc : i \in 1..Len(buf)}]
    ELSE [some |-> FALSE, docs |-> {}]

Idle(done) == [op |-> "idle", pc |-> "idle", off |-> 0, n |-> 0, buf |-> <<>>, done |-> done,
               ret |-> [some |-> FALSE, docs |-> {}], loaded |-> FALSE]

InitShare ==
    /\ has = [l \in Libs |-> TRUE]
    /\ cfg = NoCreds
    /\ cache = EmptyCache
    /\ now = Epoch
    /\ calls = 0
    /\ call = NoCall
    /\ rets = NoRets
    /\ reqs = {}
    /\ loads = {}
    /\ long = <<>>
    /\ wide = Pivot(<<>>)
    /\ err = FALSE
    /\ data = <<>>
    /\ sentiment = NoSentiment
    /\ out = NotRun
    /\ prep = NotRun
    /\ batch = NoBatch
    /\ file = NoBytes
    /\ procs = [p \in Procs |-> Idle(0)]
    /\ HEADERS = NoHeaders
    /\ sec = NoSec

Others == <<has, cfg, cache, now, calls, call, rets, reqs, loads, long, wide, err,
            data, sentiment, out, prep, batch, HEADERS, sec>>

\* _save_cache(key, payload), line 58: open(path, "w")
SaveOpen(p) ==
    /\ procs[p].pc = "idle"
    /\ procs[p].done < MaxOps
    /\ \E n \in 1..MaxPieces :
        procs' = [procs EXCEPT ![p] = [Idle(procs[p].done) EXCEPT
                                        !.op = "save", !.pc = "write", !.n = n]]
    /\ file' = [exists |-> TRUE, content |-> <<>>]
    /\ UNCHANGED Others

\* line 59: the next write of json.dump, the last one by the close of line 58
SaveWrite(p) ==
    /\ procs[p].pc = "write"
    /\ file' = [file EXCEPT !.content =
                    WriteAt(@, procs[p].off, Piece(<<p, procs[p].done>>, procs[p].off + 1, procs[p].n))]
    /\ procs' = [procs EXCEPT ![p] =
                    IF procs[p].off + 1 = procs[p].n
                    THEN Idle(procs[p].done + 1)
                    ELSE [procs[p] EXCEPT !.off = @ + 1]]
    /\ UNCHANGED Others

\* _load_cache(key, ttl), lines 45-48: os.path.exists, open
LoadOpen(p) ==
    /\ procs[p].pc = "idle"
    /\ procs[p].done < MaxOps
    /\ procs' = [procs EXCEPT ![p] =
                    IF file.exists
                    THEN [Idle(procs[p].done) EXCEPT !.op = "load", !.pc = "read"]
                    ELSE [Idle(procs[p].done + 1) EXCEPT !.loaded = TRUE]]
    /\ UNCHANGED <<file, Others>>

\* line 49: one read of json.load; the read that returns nothing ends it, and
\* lines 49-53 give the payload or None
LoadRead(p) ==
    /\ procs[p].pc = "read"
    /\ procs' = [procs EXCEPT ![p] =
                    IF Len(file.content) > Len(procs[p].buf)
                    THEN [procs[p] EXCEPT !.buf = @ \o SubSeq(file.content, Len(@) + 1,
                                                              Len(file.content))]
                    ELSE [Idle(procs[p].done + 1) EXCEPT !.ret = Parsed(procs[p].buf),
                                                         !.loaded = TRUE]]
    /\ UNCHANGED <<file, Others>>

NextShare == \E p \in Procs : SaveOpen(p) \/ SaveWrite(p) \/ LoadOpen(p) \/ LoadRead(p)

SpecShare == InitShare /\ [][NextShare]_vars

\* ------------------------------------- the per-ticker adapters, long lists
\* get_stocktwits, get_gdelt and get_wiki called with lists up to one ticker
\* longer than the cap of get_wiki, over a cache in which an earlier run left
\* the entries of some of the tickers.
TickerSources == {"stocktwits", "gdelt", "wiki"}

CapTickers == [i \in 1..(WikiCap + 1) |-> "T" \o ToString(i)]

CapLens == {2, WikiCap + 1}

CapKeys == {<<src, <<CapTickers[i]>>>> : src \in TickerSources, i \in 1..(WikiCap + 1)}

Counts(src, T, r) == [t \in T |-> IF src = "wiki" THEN WikiOf(r) ELSE r]

\* the places in the list of the tickers whose entries an earlier run left
CapHeld == {{}, {1}, {2, WikiCap}, {1, WikiCap + 1}}

\* the cache that run left at time ts
CapLeft(held, ts) ==
    [k \in CapKeys |->
        IF \E i \in held : k[2] = <<CapTickers[i]>>
        THEN [kind |-> "ok", ts |-> ts,
              payload |-> <<Payload(k[1], k[2][1], Counts(k[1], {k[2][1]}, MaxCount)[k[2][1]])>>]
        ELSE NoFile]

InitCap ==
    /\ has = [l \in Libs |-> TRUE]
    /\ cfg = NoCreds
    /\ cache \in {CapLeft(held, ts) : held \in CapHeld, ts \in {Epoch - 1, Epoch}}
    /\ Fresh

GetCapped ==
    \E src \in TickerSources, n \in CapLens, ttl \in Ttls, force \in BOOLEAN :
    \E r \in {Fail, 0} :
    \E ret \in {Adapter(src, cache, now, has, Prefix(CapTickers, n), cfg, ttl, force,
                         Counts(src, Range(CapTickers), r))} :
        Called(src, Prefix(CapTickers, n), cfg, ttl, force, ret)

NextCap == GetCapped \/ Tick

SpecCap == InitCap /\ [][NextCap]_vars

\* ------------------------------------------------------ the SEC puller
\* src/src/ingest/sec.py.  sec.step is the call main makes next for the
\* ticker at place sec.at of cfg["tickers"]; sec.mapping tells whether
\* data/sec/company_tickers.json is on disk; sec.sent lists the requests
\* sent so far: where to, the headers passed to requests.get, and the
\* user_agent of the configuration of the main that sent it.  HEADERS is the
\* module's global, a set of <<name, value>>.
MaxMains == 2

UserAgents == {"desk-1 a@b.c", "desk-2 d@e.f"}

SecLists == {<<"A">>, <<"A", "B">>}

\* _ensure_headers: the value of the global HEADERS after it
_ensure_headers(h, user_agent) ==
    IF h = {}
    THEN {<<"User-Agent", user_agent>>, <<"Accept-Encoding", "gzip">>, <<"Host", "data.sec.gov">>}
    ELSE h

Sent(to, h) == [to |-> to, headers |-> h, ua |-> sec.ua]

\* main's loop goes on to the next ticker (lines 92-97), or returns
Proceed(st) ==
    IF st.at < Len(st.tickers) THEN [st EXCEPT !.step = "cik", !.at = @ + 1]
    ELSE [st EXCEPT !.step = "end"]

InitSec ==
    /\ has = [l \in Libs |-> TRUE]
    /\ cfg = NoCreds
    /\ cache = EmptyCache
    /\ Fresh

SecOthers == <<has, cfg, cache, now, calls, call, rets, reqs, loads, long, wide, err,
               data, sentiment, out, prep, batch, file, procs>>

\* main, lines 76-81: the configuration is read.  The first main of the
\* process finds the mapping on disk, left by an earlier process, or not.
SecMain ==
    /\ sec.step \in {"none", "end"}
    /\ sec.mains < MaxMains
    /\ \E tickers \in SecLists, ua \in UserAgents, onDisk \in BOOLEAN :
        sec' = [sec EXCEPT !.step = "cik", !.at = 1, !.tickers = tickers, !.ua = ua,
                           !.mains = @ + 1,
                           !.mapping = IF sec.mains = 0 THEN onDisk ELSE @]
    /\ UNCHANGED <<HEADERS, SecOthers>>

\* cik_from_ticker, lines 26-43: the mapping is read from disk, or downloaded
\* with headers=HEADERS and written; the ticker is in it (found) or not
CikFromTicker ==
    /\ sec.step = "cik"
    /\ \E ok \in BOOLEAN, found \in BOOLEAN :
        \E st \in {IF sec.mapping THEN sec
                    ELSE [sec EXCEPT !.sent = Append(@, Sent("mapping", HEADERS)),
                                     !.mapping = ok]} :
            sec' = IF st.mapping /\ found THEN [st EXCEPT !.step = "filings"]
                   ELSE Proceed(st)
    /\ UNCHANGED <<HEADERS, SecOthers>>

\* fetch_recent_filings and latest_10x_text_url, lines 45-64: url tells
\* whether the filings hold a 10-K or 10-Q
FetchRecentFilings ==
    /\ sec.step = "filings"
    /\ HEADERS' = _ensure_headers(HEADERS, sec.ua)
    /\ \E ok \in BOOLEAN, url \in BOOLEAN :
        \E st \in {[sec EXCEPT !.sent = Append(@, Sent("submissions", HEADERS'))]} :
            sec' = IF ok /\ url THEN [st EXCEPT !.step = "text"] ELSE Proceed(st)
    /\ UNCHANGED SecOthers

\* save_text, lines 66-70, and the rest of the loop body
SaveText ==
    /\ sec.step = "text"
    /\ HEADERS' = _ensure_headers(HEADERS, sec.ua)
    /\ sec' = Proceed([sec EXCEPT !.sent = Append(@, Sent("document", HEADERS'))])
    /\ UNCHANGED SecOthers

NextSec == SecMain \/ CikFromTicker \/ FetchRecentFilings \/ SaveText

SpecSec == InitSec /\ [][NextSec]_vars

\* ------------------------------------------------------------------ claims
\* the library adapter src needs (lines 12-34)
LibOf(src) ==
    IF src = "trends" THEN "pytrends"
    ELSE IF src = "reddit_rss" THEN "feedparser"
    ELSE IF src = "reddit_api" THEN "praw"
    ELSE "requests"

\* call c reaches the cache of its adapter: the library is there, there are
\* tickers, and for the Reddit API the three credentials are configured
Runs(c) ==
    /\ c.op \in Sources
    /\ has[LibOf(c.op)]
    /\ c.tickers # <<>>
    /\ c.op = "reddit_api" => CredKeys \subseteq c.cfg.keys

\* the ticker lists of the cache keys call c uses
KeyLists(c) ==
    IF c.op \in ListSources THEN {c.tickers}
    ELSE {<<c.tickers[i]>> : i \in 1..Len(c.tickers)}

\* rows rs, returned to call c, hold payload p for the tickers kl of one key
Serves(c, rs, kl, p) ==
    IF c.op \in ListSources THEN rs = p
    ELSE /\ Len(rs) = Len(c.tickers)
         /\ \A i \in 1..Len(c.tickers) : c.tickers[i] = kl[1] => <<rs[i]>> = p

Requested(rq, src, tk) == \E q \in rq : q.source = src /\ q.ticker = tk

C2Theorem ==
    [][calls' = calls + 1 =>
          \A l \in loads' :
              LET f == cache[l.key] IN
              f.kind \in {"none", "ok", "scalar"} =>
                  /\ l.ret.some <=> (f.kind # "none" /\ now - f.ts <= l.ttl)
                  /\ l.ret.some => l.ret.payload = f.payload
      ]_vars

\* a read that hits an entry of age ttl, which a read of the same entry at
\* the same time with a smaller ttl misses
C2Witness ==
    \E l \in loads :
        /\ l.ret.some
        /\ l.ttl > 0
        /\ cache[l.key].kind = "ok"
        /\ now - cache[l.key].ts = l.ttl
        /\ ~LoadCache(cache, now, l.key, l.ttl - 1).some

\* C5: when the provider is unavailable for a ticker (the request of the
\* last call for it failed), the adapter's output holds no row for that
\* ticker and source.
C5Claim ==
    \A q \in reqs :
        ~q.ok =>
            \A i \in 1..Len(rets[q.source].rows) :
                rets[q.source].rows[i].ticker # Upper(q.ticker)

\* C6: a failed fetch is retried on the next run: the next call of the
\* adapter for the same ticker issues the remote request again instead of
\* reusing the outcome of the failed fetch.
C6Claim ==
    [][(calls' = calls + 1 /\ call'.op = call.op /\ Runs(call') /\ call'.cfg.valid) =>
          \A q \in reqs :
              (~q.ok /\ q.ticker \in Range(call'.tickers)) =>
                  Requested(reqs', q.source, q.ticker)
      ]_vars

\* the files _load_cache cannot use: invalid JSON or unreadable, not an
\* object, a timestamp that is no number, no timestamp, no payload
Corrupt == {"garbled", "notdict", "badts", "nots", "nopayload"}

\* C7: a corrupt, unreadable or mis-shaped entry is a miss: _load_cache
\* returns None and does not raise, and the adapter goes on as on a miss: it
\* issues the remote request for the tickers of the key, returns what the
\* fetch yields and writes the entry anew (the Reddit-API adapter whose
\* client cannot be built returns its empty table, as on a miss).
C7Theorem ==
    [][(calls' = calls + 1 /\ Runs(call') /\ ~call'.force) =>
          \A kl \in KeyLists(call') :
              LET k == <<call'.op, kl>> IN
              cache[k].kind \in Corrupt =>
                  /\ \E l \in loads' : l.key = k /\ l.ret = None
                  /\ ~rets'[call'.op].raised
                  /\ IF call'.cfg.valid
                     THEN /\ \A tk \in Range(kl) : Requested(reqs', call'.op, tk)
                          /\ cache'[k].kind = "ok"
                          /\ cache'[k].ts = now
                          /\ Serves(call', rets'[call'.op].rows, kl, cache'[k].payload)
                     ELSE /\ rets'[call'.op].rows = <<>>
                          /\ reqs' = {}
                          /\ cache'[k] = cache[k]
      ]_vars

\* a call that found a file with no timestamp, fetched and rewrote it
C7Witness ==
    \E l \in loads :
        /\ l.file = "nots"
        /\ ~l.ret.some
        /\ \A tk \in Range(l.key[2]) : Requested(reqs, call.op, tk)
        /\ cache[l.key].kind = "ok"
        /\ cache[l.key].ts = now

\* the keys an aggregation with the arguments of call c reads
BuildKeys(c) ==
    UNION {{<<src, kl>> : kl \in KeyLists([op |-> src, tickers |-> UpperAll(c.tickers)])} :
              src \in {x \in Sources : Runs([c EXCEPT !.op = x])}}

\* C3 as stated: two aggregations with the same tickers, the second within
\* ttl of the first and without force_refresh, yield identical long and wide
\* tables, and the second issues no remote request.
C3Claim ==
    [][(/\ calls' = calls + 1
        /\ call.op = "build" /\ call'.op = "build"
        /\ call'.tickers = call.tickers
        /\ ~call'.force
        /\ ~err
        /\ now - call.at <= call'.ttl) =>
            (~err' /\ long' = long /\ wide' = wide /\ reqs' = {})
      ]_vars

\* C3, amended: two aggregations with the same tickers, the second without
\* force_refresh and while every cache entry it reads still has age <= ttl
\* (counted from the write of the entry, which can precede the first call),
\* yield identical long and wide tables, and the second issues no remote
\* request.
C3Theorem ==
    [][(/\ calls' = calls + 1
        /\ call.op = "build" /\ call'.op = "build"
        /\ call'.tickers = call.tickers
        /\ ~call'.force
        /\ ~err
        /\ \A k \in BuildKeys(call') :
              cache[k].kind # "none" => now - cache[k].ts <= call'.ttl) =>
            (~err' /\ long' = long /\ wide' = wide /\ reqs' = {})
      ]_vars

\* a second aggregation of a list that trends has rows for, served from the
\* cache alone (the trends entry is keyed by the whole list, so the call
\* before it had the same tickers)
C3Witness ==
    /\ calls = 2
    /\ call.op = "build"
    /\ ~call.force
    /\ ~err
    /\ reqs = {}
    /\ rets["trends"].rows # <<>>
    /\ Len(long) > Len(rets["trends"].rows)
    /\ \A l \in loads : l.ret.some

SourceOrder == <<"trends", "reddit_rss", "reddit_api", "stocktwits", "gdelt", "wiki">>

Unscored(rows) ==
    [i \in 1..Len(rows) |->
        Row(rows[i].ticker, rows[i].source, rows[i].value, rows[i].change_pct)]

\* C4: whichever adapters raise or return nothing, aggregate_attention
\* completes without raising, and its long table holds exactly the rows of
\* the other adapters.
C4Claim ==
    call.op = "build" =>
        /\ ~err
        /\ Unscored(long) =
              Concat([i \in 1..6 |-> IF rets[SourceOrder[i]].raised THEN <<>>
                                     ELSE rets[SourceOrder[i]].rows])

\* the partition of source src: its rows, in table order
PartOf(rows, src) == SelectSeq(rows, LAMBDA r : r.source = src)

\* the metric of row i of a partition: |change_pct| if any row of the
\* partition has a change, else value
MetricOf(part, i) ==
    IF \E j \in 1..Len(part) : part[j].change_pct # 0
    THEN Abs(part[i].change_pct)
    ELSE part[i].value

Metrics(part) == {MetricOf(part, i) : i \in 1..Len(part)}

\* C8: in a table aggregate_attention returned, every source partition with
\* two or more distinct metric values has score_100 = 1 on the rows of the
\* least metric and 100 on those of the greatest, and every score_100 is an
\* integer in 1..100.
C8Theorem ==
    (call.op = "build" /\ ~err) =>
        \A src \in Sources :
            LET part == PartOf(long, src) IN
            /\ \A i \in 1..Len(part) : part[i].score_100 \in 1..100
            /\ Cardinality(Metrics(part)) >= 2 =>
                  \A i \in 1..Len(part) :
                      /\ (\A m \in Metrics(part) : MetricOf(part, i) <= m) =>
                            part[i].score_100 = 1
                      /\ (\A m \in Metrics(part) : MetricOf(part, i) >= m) =>
                            part[i].score_100 = 100

\* a returned table with a partition of two distinct metrics, scored 1 and 100
C8Witness ==
    /\ call.op = "build"
    /\ ~err
    /\ \E src \in Sources :
          LET part == PartOf(long, src) IN
          /\ Cardinality(Metrics(part)) >= 2
          /\ \E i, j \in 1..Len(part) : part[i].score_100 = 1 /\ part[j].score_100 = 100

\* C9: in a table aggregate_attention returned, every row of a source
\* partition whose metric values are all the same (a single row and all
\* zeros included) has score_100 = 50.
C9Theorem ==
    (call.op = "build" /\ ~err) =>
        \A src \in Sources :
            LET part == PartOf(long, src) IN
            Cardinality(Metrics(part)) <= 1 =>
                \A i \in 1..Len(part) : part[i].score_100 = 50

\* a returned table with a two-row partition of all zeros and a one-row
\* partition, every row of them scored 50
C9Witness ==
    /\ call.op = "build"
    /\ ~err
    /\ \E s1, s2 \in Sources :
          /\ Len(PartOf(long, s1)) = 2
          /\ Metrics(PartOf(long, s1)) = {0}
          /\ \A i \in 1..2 : PartOf(long, s1)[i].score_100 = 50
          /\ Len(PartOf(long, s2)) = 1
          /\ PartOf(long, s2)[1].score_100 = 50

\* the trends partition of the scored table reports change_pct 0, 50, 100
Reports0To100 ==
    /\ call.op = "score"
    /\ ~err
    /\ [i \in 1..3 |-> PartOf(long, "trends")[i].change_pct] =
          <<0, 50 * Scale, 100 * Scale>>

\* C10 as stated: three tickers of a source reporting change_pct 0, 50, 100
\* are scored 1, 50, 100.
C10Claim ==
    Reports0To100 =>
        [i \in 1..3 |-> PartOf(long, "trends")[i].score_100] = <<1, 50, 100>>

\* C10, amended: three tickers of a source reporting change_pct 0, 50, 100
\* are scored 1, 51, 100; a score is 1 + round((x - min)/(max - min) * 99),
\* and 49.5 rounds to the even 50.
C10Theorem ==
    /\ Reports0To100 =>
          [i \in 1..3 |-> PartOf(long, "trends")[i].score_100] = <<1, 51, 100>>
    /\ (call.op = "score" /\ ~err) =>
          LET part == PartOf(long, "trends")
              lo == CHOOSE m \in Metrics(part) : \A n \in Metrics(part) : m <= n
              hi == CHOOSE m \in Metrics(part) : \A n \in Metrics(part) : m >= n
          IN  hi > lo =>
                  \A i \in 1..Len(part) :
                      \E q \in 0..99 :
                          /\ part[i].score_100 = 1 + q
                          /\ Abs(2 * (99 * (MetricOf(part, i) - lo) - q * (hi - lo))) <= hi - lo

\* the scenario scored
C10Witness ==
    /\ Reports0To100
    /\ PartOf(long, "trends")[2].score_100 = 51

\* C11: within each source partition the metric that is normalized is
\* |change_pct| of each row if some row of the partition has a nonzero
\* change_pct, and the value of each row otherwise: the choice is made for
\* the partition, not row by row and not across sources.  Every score is the
\* 1..100 scaling of that metric within its partition.
C11Theorem ==
    (call.op = "score" /\ ~err) =>
        \A src \in Sources :
            LET part == PartOf(long, src)
                ms == Metrics(part)
                lo == CHOOSE m \in ms : \A n \in ms : m <= n
                hi == CHOOSE m \in ms : \A n \in ms : m >= n
            IN  part # <<>> =>
                    IF hi = lo
                    THEN \A i \in 1..Len(part) : part[i].score_100 = 50
                    ELSE \A i \in 1..Len(part) :
                            \E q \in 0..99 :
                                /\ part[i].score_100 = 1 + q
                                /\ Abs(2 * (99 * (MetricOf(part, i) - lo) - q * (hi - lo)))
                                      <= hi - lo

\* trends: the row without a change has the larger value and scores 1, the
\* row that fell scores 100; wiki, with no change at all, is scored by value
C11Witness ==
    /\ call.op = "score"
    /\ ~err
    /\ LET tr == PartOf(long, "trends")
           wk == PartOf(long, "wiki")
       IN  /\ tr[1].change_pct = 0 /\ tr[1].value = 2 * Scale /\ tr[1].score_100 = 1
           /\ tr[2].change_pct < 0 /\ tr[2].value = Scale /\ tr[2].score_100 = 100
           /\ tr[3].change_pct = Scale \div 2 /\ tr[3].score_100 \in 2..99
           /\ \A i \in 1..2 : wk[i].change_pct = 0
           /\ wk[1].value < wk[2].value
           /\ wk[1].score_100 = 1 /\ wk[2].score_100 = 100

\* the rows of the long table for a ticker and a source
Observed(tk, src) == {i \in 1..Len(long) : long[i].ticker = tk /\ long[i].source = src}

\* the cells of a wide row, in the order of the sources
CellSeq(row) ==
    LET cols == SelectSeq(SourceOrder, LAMBDA s : s \in DOMAIN row.cells)
    IN  [k \in 1..Len(cols) |-> row.cells[cols[k]]]

\* C12: in the wide table every ticker of the long table has a row and every
\* source of the long table a column; a cell with no observation for the
\* ticker holds 1, a cell with one holds its score; Overall_Attention is the
\* mean of the row's source cells rounded to the nearest integer (a tie to
\* the even one), and lies in 1..100.
C12Theorem ==
    (call.op = "build" /\ ~err /\ long # <<>>) =>
        /\ DOMAIN wide = {long[i].ticker : i \in 1..Len(long)}
        /\ \A tk \in DOMAIN wide :
            LET row == wide[tk]
                n == Cardinality(DOMAIN row.cells)
                total == SumSeq(CellSeq(row))
                d == 2 * (total - n * row.Overall_Attention)
            IN  /\ DOMAIN row.cells = {long[i].source : i \in 1..Len(long)}
                /\ \A s \in DOMAIN row.cells :
                        IF Observed(tk, s) = {}
                        THEN row.cells[s] = 1
                        ELSE \A i \in Observed(tk, s) : row.cells[s] = long[i].score_100
                /\ row.Overall_Attention \in 1..100
                /\ Abs(d) <= n
                /\ Abs(d) = n => row.Overall_Attention % 2 = 0

\* a ticker without an observation of one source next to a ticker that has
\* one: the cell is 1 and counts as 1 in the mean of a row with other scores
C12Witness ==
    /\ call.op = "build"
    /\ ~err
    /\ \E tk \in DOMAIN wide : \E s, s2 \in DOMAIN wide[tk].cells :
        /\ Observed(tk, s) = {}
        /\ wide[tk].cells[s] = 1
        /\ Observed(tk, s2) # {}
        /\ wide[tk].cells[s2] > 1
        /\ wide[tk].Overall_Attention > 1

\* C13: when no adapter returns data the aggregation returns, without
\* error, a long table with the columns ticker, source, value, change_pct,
\* score_100 and a wide table that carries Overall_Attention, both with no
\* rows.
C13Claim ==
    (call.op = "build" /\ \A src \in Sources : ~Kept(rets[src])) =>
        /\ ~err
        /\ long = <<>>
        /\ LongColumns(long) = {"ticker", "source", "value", "change_pct", "score_100"}
        /\ DOMAIN wide = {}
        /\ "Overall_Attention" \in WideColumns(long)

\* C14: when client_id, client_secret or user_agent is absent from the
\* reddit configuration, the Reddit-API adapter of an aggregation returns an
\* empty result without raising, issues no request, reads no cache entry and
\* leaves every cache entry of reddit_api as it was, and the long table holds
\* no reddit_api row.
C14Theorem ==
    [][(call'.op = "build" /\ calls' = calls + 1 /\ ~(CredKeys \subseteq cfg.keys)) =>
            /\ rets'["reddit_api"] = [raised |-> FALSE, rows |-> <<>>]
            /\ \A q \in reqs' : q.source # "reddit_api"
            /\ \A l \in loads' : l.key[1] # "reddit_api"
            /\ \A k \in Keys : k[1] = "reddit_api" => cache'[k] = cache[k]
            /\ \A i \in 1..Len(long') : long'[i].source # "reddit_api"]_vars

\* an aggregation with praw imported and client_secret missing, over a ticker
\* list whose reddit_api cache file exists and is fresh: the file is left
\* alone and the long table holds the rows of other sources only
C14Witness ==
    /\ call.op = "build"
    /\ has["praw"]
    /\ cfg = PartCreds
    /\ call.tickers # <<>>
    /\ cache[<<"reddit_api", UpperAll(call.tickers)>>].kind # "none"
    /\ now - cache[<<"reddit_api", UpperAll(call.tickers)>>].ts <= call.ttl
    /\ rets["reddit_api"].rows = <<>>
    /\ long # <<>>
    /\ \A i \in 1..Len(long) : long[i].source # "reddit_api"

\* the rows of the screener output for a ticker
OutRows(t) == {i \in 1..Len(out.rows) : out.rows[i].ticker = t}

\* the signals of a row
Signals(r) == <<r.vol_spike, r.breakout20, r.rsi_cross_50, r.pct_change, r.gap_up_5>>

\* C15: the screener output has a row for a ticker exactly when the ticker
\* has 30 bars or more (29 bars: no row, 30 bars: a row), and the signals of a
\* row are those the screener computes for the ticker alone, whichever
\* tickers are dropped.
C15Claim ==
    out.done =>
        \A t \in Range(call.tickers) :
            /\ OutRows(t) # {} <=> Len(data[t]) >= 30
            /\ \A i \in OutRows(t) :
                    Len(data[t]) >= 30 =>
                        Signals(out.rows[i]) = Signals(SignalRow(t, data[t]))

\* the rows of prep_discovery that carry signals
PrepRows == {i \in 1..Len(prep.rows) : "vol_spike" \in DOMAIN prep.rows[i]}

\* the rows of the screener output of tickers with 30 bars or more
FullRows == {i \in 1..Len(out.rows) : Len(data[out.rows[i].ticker]) >= 30}

\* the highs and the volumes of the 20 days before today
Prior20(b, field) == [k \in 1..20 |-> b[Len(b) - 21 + k][field]]

\* C16: breakout20 of a ticker is 1 iff today's high is strictly greater than
\* the greatest high of the 20 trading days before today, in the screener
\* output and in the table of prep_discovery; a high equal to it gives 0.
C16Claim ==
    /\ out.done =>
        \A i \in FullRows :
            LET b == data[out.rows[i].ticker]
            IN  out.rows[i].breakout20 =
                    IF b[Len(b)].High > MaxOfSeq(Prior20(b, "High")) THEN 1 ELSE 0
    /\ prep.done =>
        \A i \in PrepRows :
            LET b == data[prep.rows[i].ticker]
            IN  prep.rows[i].breakout20 =
                    IF b[Len(b)].High > MaxOfSeq(Prior20(b, "High")) THEN 1 ELSE 0

\* C17: gap_up_5 of a ticker is 1 iff (open[today] - close[yesterday]) /
\* close[yesterday] >= 0.05, in the screener output and in the table of
\* prep_discovery; an open exactly 5% above the previous close gives 1.
C17Claim ==
    /\ out.done =>
        \A i \in FullRows :
            LET b == data[out.rows[i].ticker]
                n == Len(b)
            IN  out.rows[i].gap_up_5 =
                    IF 100 * (b[n].Open - b[n - 1].Close) >= 5 * b[n - 1].Close THEN 1 ELSE 0
    /\ prep.done =>
        \A i \in PrepRows :
            LET b == data[prep.rows[i].ticker]
                n == Len(b)
            IN  prep.rows[i].gap_up_5 =
                    IF 100 * (b[n].Open - b[n - 1].Close) >= 5 * b[n - 1].Close THEN 1 ELSE 0

\* C18: rsi_cross_50 of a ticker is 1 iff yesterday's RSI is <= 50 and
\* today's RSI is > 50, and 0 otherwise, also when one of the two RSI values
\* is NaN, in the screener output and in the table of prep_discovery.
C18Claim ==
    /\ out.done =>
        \A i \in FullRows :
            LET b == data[out.rows[i].ticker]
                n == Len(b)
                close == [k \in 1..n |-> b[k].Close]
            IN  out.rows[i].rsi_cross_50 =
                    IF AtMost50(rsi(close, n - 1)) /\ Above50(rsi(close, n)) THEN 1 ELSE 0
    /\ prep.done =>
        \A i \in PrepRows :
            LET b == data[prep.rows[i].ticker]
                n == Len(b)
                close == [k \in 1..n |-> b[k].Close]
            IN  prep.rows[i].rsi_cross_50 =
                    IF AtMost50(rsi_prep(close, n - 1)) /\ Above50(rsi_prep(close, n))
                    THEN 1 ELSE 0

\* C19: vol_spike of a ticker is today's volume divided by the mean volume of
\* the 20 days before today, and NaN when that mean is 0, in the screener
\* output and (to two decimals) in the table of prep_discovery.
C19Claim ==
    /\ out.done =>
        \A i \in FullRows :
            LET b == data[out.rows[i].ticker]
                total == SumSeq(Prior20(b, "Volume"))
            IN  out.rows[i].vol_spike =
                    IF total = 0 THEN NaNQ ELSE Q(20 * b[Len(b)].Volume, total)
    /\ prep.done =>
        \A i \in PrepRows :
            LET b == data[prep.rows[i].ticker]
                total == SumSeq(Prior20(b, "Volume"))
            IN  prep.rows[i].vol_spike =
                    IF total = 0 THEN NaN
                    ELSE RoundHalfEven(100 * 20 * b[Len(b)].Volume, total)

\* C20: the discovery_score of every row of the screener output is
\* 0.45 * clip(vol_spike, 0, 10) / 10 + 0.25 * breakout20 + 0.15 * rsi_cross_50
\* + 0.15 * (clip(news_sentiment, -1, 1) + 1) / 2 of the row's own vol_spike
\* (>= 0), breakout20 and rsi_cross_50 (0 or 1) and news_sentiment (any value;
\* 0 when absent), so equal inputs give equal scores, and it lies in [0, 1].
C20Theorem ==
    out.done =>
        \A i \in 1..Len(out.rows) :
            LET r == out.rows[i]
                v == r.vol_spike
                s == IF IsNaN(r.news_sentiment) THEN [num |-> 0, den |-> 1]
                     ELSE r.news_sentiment
                cv == IF v.num > 10 * v.den THEN 10 * v.den ELSE v.num
                cs == IF s.num > s.den THEN s.den
                      ELSE IF s.num < 0 - s.den THEN 0 - s.den ELSE s.num
                N == 180 * cv * s.den + 1000 * r.breakout20 * v.den * s.den
                        + 600 * r.rsi_cross_50 * v.den * s.den + 300 * (cs + s.den) * v.den
                D == 4000 * v.den * s.den
            IN  /\ v.den > 0 /\ v.num >= 0
                /\ r.breakout20 \in {0, 1}
                /\ r.rsi_cross_50 \in {0, 1}
                /\ r.discovery_score.den > 0
                /\ r.discovery_score.num * D = N * r.discovery_score.den
                /\ 0 <= r.discovery_score.num
                /\ r.discovery_score.num <= r.discovery_score.den

\* a row with vol_spike above 10, both signals and a sentiment above 1 scores
\* exactly 1; a row without a sentiment next to it scores as with sentiment 0
C20Witness ==
    /\ out.done
    /\ \E i, j \in 1..Len(out.rows) :
        /\ out.rows[i].vol_spike.num > 10 * out.rows[i].vol_spike.den
        /\ out.rows[i].breakout20 = 1
        /\ out.rows[i].rsi_cross_50 = 1
        /\ out.rows[i].news_sentiment.num > out.rows[i].news_sentiment.den
        /\ out.rows[i].discovery_score = [num |-> 1, den |-> 1]
        /\ IsNaN(out.rows[j].news_sentiment)
        /\ out.rows[j].discovery_score.num > 0
        /\ out.rows[j].discovery_score.num < out.rows[j].discovery_score.den

\* the place of a ticker in the list passed to screen
PlaceOf(t) == CHOOSE k \in 1..Len(call.tickers) : call.tickers[k] = t

\* C21: the rows of the screener output are in descending order of
\* discovery_score, and two rows of equal score are in the order of their
\* tickers in the input list.
C21Claim ==
    out.done =>
        \A i, j \in 1..Len(out.rows) :
            i < j =>
                /\ QGeq(out.rows[i].discovery_score, out.rows[j].discovery_score)
                /\ out.rows[i].discovery_score = out.rows[j].discovery_score =>
                        PlaceOf(out.rows[i].ticker) < PlaceOf(out.rows[j].ticker)

\* the orders in which six adapters can be invoked
Orders == {p \in [1..6 -> Sources] : \A i, j \in 1..6 : p[i] = p[j] => i = j}

\* lines 356-364 on the frames of the cycle appended in order p
ScoredInOrder(p) ==
    LET kept == SelectSeq([k \in 1..6 |-> rets[p[k]]], Kept)
    IN  Scored(Concat([i \in 1..Len(kept) |-> kept[i].rows]))

\* cache c with the files of every source but src removed
OwnFiles(c, src) == [k \in Keys |-> IF k[1] = src THEN c[k] ELSE NoFile]

\* C22: in an aggregation cycle the adapters are invoked one after another in
\* the order trends, reddit_rss, reddit_api, stocktwits, gdelt, wiki, each
\* returning before the next is called.  What an adapter returns, requests
\* and caches does not depend on what the adapters before it left (it reads
\* and writes the cache files of its own source only), and the scored rows,
\* as a set, and the wide table are those of the frames taken in any order.
C22Theorem ==
    [][/\ calls' = calls + 1 =>
            /\ call'.op = SourceOrder[calls']
            /\ calls > 0 => call.op = SourceOrder[calls]
            /\ \A resp \in CycleResps(call'.op, Range(UpperAll(call.tickers))) :
                LET r == Adapter(call'.op, cache, now, has, UpperAll(call.tickers),
                                 cfg, call.ttl, call.force, resp)
                    alone == Adapter(call'.op, OwnFiles(cache, call'.op), now, has,
                                     UpperAll(call.tickers), cfg, call.ttl, call.force, resp)
                IN  /\ r.raised = alone.raised
                    /\ r.rows = alone.rows
                    /\ r.reqs = alone.reqs
                    /\ \A k \in Keys :
                        r.cache[k] = IF k[1] = call'.op THEN alone.cache[k] ELSE cache[k]
       /\ call'.op = "build" =>
            /\ calls = 6 /\ call.op = "wiki"
            /\ \A p \in Orders : \A sc \in {ScoredInOrder(p)} :
                /\ sc.raised = err'
                /\ Range(sc.rows) = Range(long')
                /\ Pivot(sc.rows) = wide']_vars

\* a cycle over two tickers that ended with rows of several sources, trends
\* among them and reddit_api not, with files written to a cache that held one
C22Witness ==
    /\ call.op = "build"
    /\ calls = 6
    /\ ~err
    /\ Len(call.tickers) = 2
    /\ Kept(rets["trends"])
    /\ ~Kept(rets["reddit_api"])
    /\ Kept(rets["wiki"])
    /\ \E i, j \in 1..Len(long) :
        long[i].source = long[j].source /\ long[i].score_100 # long[j].score_100
    /\ cache # Leftover
    /\ cache[<<"stocktwits", <<"A">>>>].ts = Epoch - 1

\* the merge ran without a chatter table: none was passed, or an empty one
NoChatter == out.done /\ (~sentiment.given \/ sentiment.rows = <<>>)

\* the news_sentiment column of the returned table
NewsSentiment == [i \in 1..Len(out.rows) |-> out.rows[i].news_sentiment]

\* C23: merge_and_score returns one row for each distinct ticker of the news
\* table; without a chatter table x_chatter_change is 0 in every row and the
\* score is 0.6 * zscore(news_sentiment), so that the scores are all 0 when the
\* tickers all have the same mean sentiment.
C23Claim ==
    NoChatter =>
        /\ \A t \in Range(NewsTickers) :
                Cardinality({i \in 1..Len(out.rows) : out.rows[i].ticker = t})
                    = IF \E j \in 1..Len(data) : data[j].ticker = t THEN 1 ELSE 0
        /\ \A i \in 1..Len(out.rows) : out.rows[i].x_chatter_change = Zero
        /\ \A z \in {zscore(NewsSentiment)} :
                \A i \in 1..Len(out.rows) : out.rows[i].score = FMul(z[i], NewsWeight)
        /\ (\A i, j \in 1..Len(out.rows) :
                out.rows[i].news_sentiment = out.rows[j].news_sentiment)
                => \A i \in 1..Len(out.rows) : out.rows[i].score = Zero

\* the attention tables of data/
AttentionTables == {"chatter.csv", "chatter_summary.csv"}

\* C24: in run_once.main no failure of a step or of a provider halts the batch:
\* the run reaches its end with every step run and the attention tables
\* written.
C24Claim ==
    batch.step = "end" /\ batch.failed # {} =>
        ~batch.halted /\ AttentionTables \subseteq batch.written

\* the adapters that report a count and have no baseline for it
CountSources == {"stocktwits", "gdelt", "reddit_api"}

\* C25: every row the stocktwits, gdelt and Reddit-API adapters return has
\* change_pct = value, whether the fetch succeeded, failed, or the row came
\* from the cache.
C25Theorem ==
    \A src \in CountSources :
        \A i \in 1..Len(rets[src].rows) :
            rets[src].rows[i].change_pct = rets[src].rows[i].value

\* a stocktwits call that served one ticker from the cache, with a positive
\* count, and fetched the other in vain
C25Witness ==
    /\ call.op = "stocktwits"
    /\ Len(rets["stocktwits"].rows) = 2
    /\ rets["stocktwits"].rows[1].value > 0
    /\ \E l \in loads : l.key = <<"stocktwits", <<call.tickers[1]>>>> /\ l.ret.some
    /\ \E q \in reqs : q.ticker = call.tickers[2] /\ ~q.ok

\* the entries of es that are the first of their link
Firsts(es) == {i \in 1..Len(es) : \A j \in 1..(i - 1) : es[j].link # es[i].link}

\* of these, the ones stamped within the last day, and the ones stamped
\* before it and within the lookback
In24h(es) == {i \in Firsts(es) : es[i].age # NoStamp /\ es[i].age <= 1}

InPrior(es) ==
    {i \in Firsts(es) : es[i].age # NoStamp /\ es[i].age > 1 /\ es[i].age <= LookbackDays}

\* the percent deviation of h of the last day from the daily average of p in
\* the LookbackDays - 1 days before, to one decimal
Deviation(h, p) ==
    IF p > 0 THEN Pct1(h * (LookbackDays - 1) - p, p)
    ELSE IF h > 0 THEN 100 * Scale ELSE 0

\* C26: the Reddit-feed adapter counts each distinct link of a ticker once
\* over its two queries, each counted entry in the last 24 hours or in the
\* prior window, never in both; change_pct is the percent deviation of the
\* 24-hour count from the prior daily average, 100 when that average is 0 and
\* the count is positive, 0 when both are 0.
C26Theorem ==
    (call.op = "reddit_rss" /\ ~rets["reddit_rss"].raised) =>
        /\ Len(rets["reddit_rss"].rows) = Len(call.tickers)
        /\ \A i \in 1..Len(call.tickers) :
            LET es == FeedEntries(data[call.tickers[i]])
                row == rets["reddit_rss"].rows[i]
            IN  /\ row.ticker = Upper(call.tickers[i])
                /\ row.value = Cardinality(In24h(es)) * Scale
                /\ row.change_pct = Deviation(Cardinality(In24h(es)), Cardinality(InPrior(es)))

\* a link that both queries return, counted once, with nothing in the prior
\* window: change_pct is 100
C26Witness ==
    /\ call.op = "reddit_rss"
    /\ rets["reddit_rss"].rows # <<>>
    /\ rets["reddit_rss"].rows[1].value = Scale
    /\ rets["reddit_rss"].rows[1].change_pct = 100 * Scale
    /\ \E i \in 1..Len(data["A"][1].entries), j \in 1..Len(data["A"][2].entries) :
            /\ data["A"][1].entries[i].link = data["A"][2].entries[j].link
            /\ data["A"][1].entries[i].age = 0
            /\ data["A"][2].entries[j].age = 0

\* C27: with two processes on one cache directory, a _load_cache that
\* overlaps a _save_cache of its key, or follows two overlapping saves, does not
\* raise and returns None or a payload that one _save_cache wrote in full.
C27Claim ==
    \A p \in Procs :
        procs[p].loaded /\ procs[p].ret.some => Cardinality(procs[p].ret.docs) = 1

\* the tickers adapter src polls of the list it is given
Polled(src, tickers) == IF src = "wiki" THEN Prefix(tickers, WikiCap) ELSE tickers

\* C28: a call of stocktwits, gdelt or wiki without force_refresh, for a list
\* of which some tickers have a fresh entry and others not, issues a remote
\* request for exactly the polled tickers without a fresh entry, leaves every
\* fresh entry of its source as it was, timestamp included, and returns one
\* row per polled ticker in the order of the list; wiki polls the first 30
\* tickers of the list only.
C28Theorem ==
    [][(calls' = calls + 1 /\ Runs(call') /\ call'.op \in TickerSources /\ ~call'.force) =>
        \A src \in {call'.op} : \A asked \in {Polled(src, call'.tickers)} :
            /\ \A i \in 1..Len(call'.tickers) :
                    Requested(reqs', src, call'.tickers[i])
                        <=> /\ i <= Len(asked)
                            /\ ~LoadCache(cache, now, <<src, <<asked[i]>>>>, call'.ttl).some
            /\ \A q \in reqs' : q.source = src /\ q.ticker \in Range(asked)
            /\ \A k \in DOMAIN cache :
                    k[1] = src /\ LoadCache(cache, now, k, call'.ttl).some => cache'[k] = cache[k]
            /\ Len(rets'[src].rows) = Len(asked)
            /\ \A i \in 1..Len(asked) :
                    /\ rets'[src].rows[i].ticker = Upper(asked[i])
                    /\ rets'[src].rows[i].source = src
      ]_vars

\* wiki, given one ticker more than its cap, served some tickers from entries
\* older than the call and fetched the others
C28Witness ==
    /\ call.op = "wiki"
    /\ ~call.force
    /\ Len(call.tickers) = WikiCap + 1
    /\ Len(rets["wiki"].rows) = WikiCap
    /\ \E l \in loads : l.ret.some /\ cache[l.key].ts < call.at
    /\ \E l \in loads : ~l.ret.some /\ Requested(reqs, "wiki", l.key[2][1])

\* the entries call c of an adapter that reaches its cache is to write: one
\* for the list (of trends: its first 10 tickers), or one per ticker
WrittenBy(c, kl) ==
    IF c.op = "trends" THEN <<c.op, Prefix(kl, MaxKeywords)>> ELSE <<c.op, kl>>

\* C29: a call with force_refresh reads no cache entry and leaves, under each
\* of its keys, an entry stamped with the time of the call that holds what the
\* call returned, also when the fetch failed; a call without force_refresh
\* that follows it within its ttl returns, for the same key, what the forced
\* call returned.
C29Claim ==
    [][/\ (calls' = calls + 1 /\ Runs(call') /\ call'.force) =>
            /\ loads' = {}
            /\ \A kl \in KeyLists(call') :
                    /\ cache'[WrittenBy(call', kl)].kind = "ok"
                    /\ cache'[WrittenBy(call', kl)].ts = now
                    /\ Serves(call', rets'[call'.op].rows, kl,
                              cache'[WrittenBy(call', kl)].payload)
       /\ (/\ calls' = calls + 1
           /\ Runs(call) /\ call.force
           /\ Runs(call') /\ ~call'.force
           /\ now - call.at <= call'.ttl) =>
            \A kl \in KeyLists(call) \cap KeyLists(call') :
                \E p \in {rets[call.op].rows} \cup {<<rets[call.op].rows[i]>> :
                                                        i \in 1..Len(rets[call.op].rows)} :
                    /\ Serves(call, rets[call.op].rows, kl, p)
                    /\ Serves(call', rets'[call.op].rows, kl, p)
      ]_vars

\* C30: every request sec.main sends, the first download of the
\* ticker-to-CIK mapping included, is sent with the shared headers
\* initialised and carries the configured User-Agent; once initialised, the
\* shared headers are not changed by a later call.
C30Claim ==
    [][/\ Len(sec'.sent) > Len(sec.sent) =>
            <<"User-Agent", sec.ua>> \in sec'.sent[Len(sec'.sent)].headers
       /\ HEADERS # {} => HEADERS' = HEADERS
      ]_vars

====
